---- MODULE Spec2Model ----
(***************************************************************************)
(* The client-side event pipeline of the Clianta SDK:                      *)
(*   Tracker (src/src/core/tracker.ts, second class, lines 287-636)        *)
(*   ConsentManager (src/src/consent/index.ts)                             *)
(*   EventQueue (src/src/core/queue.ts)                                    *)
(*   Transport (src/src/core/transport.ts)                                 *)
(* One page life is one JavaScript realm: handlers run to completion, the  *)
(* only suspension point is the await on Transport.sendEvents in flush().  *)
(*                                                                         *)
(* Spec follows the events through consent gate, queue and storage;        *)
(* SpecBurst a burst of track() calls; SpecConsent and SpecRevisit the     *)
(* ConsentManager during one page life and across page loads;              *)
(* SpecTransport the retry loop of one logical send; SpecIdentity the      *)
(* visitor and session identifiers of a Tracker; SpecIdentify the calls    *)
(* identify() and deleteData(); SpecLifecycle plugin loading and           *)
(* destroy(); SpecCallbacks the change callbacks of the ConsentManager;    *)
(* SpecDelivery and SpecDeliveryFair the queue against the results of the  *)
(* transport, without and with the scheduling of the flush timer.          *)
(***************************************************************************)
EXTENDS Integers, Sequences, FiniteSets, TLC

(***************************************************************************)
(* Bounds of the model                                                     *)
(***************************************************************************)
\* number of track() calls of one run of the pipeline
MaxEvents == 2
\* number of track() calls of one burst (more than the documented limits)
BurstLen == 105
\* the largest maxRetries a Transport is configured with
MaxRetriesBound == 3
\* the time a page life is followed for, in the unit of sessionTimeout
MaxClock == 2
\* number of identifiers generateUUID() hands out in one page life
MaxUuids == 4
\* number of plugins a configuration lists
MaxPlugins == 2
\* number of change callbacks registered at one time
MaxScrollTop == 9
MaxPageViewPlugins == 2
MaxCallbacks == 2

(***************************************************************************)
(* Program constants                                                       *)
(***************************************************************************)
\* queue.ts:13
MAX_QUEUE_SIZE == 1000
\* queue.ts:28, config default of batchSize
DEFAULT_BATCH_SIZE == 10
\* the rate limit the documentation and tests/core/queue.test.ts:105 state
RATE_LIMIT == 100
\* the buffer cap the documentation and tests/consent/consent.test.ts:171 state
MAX_BUFFER_SIZE == 100
\* the batchSize of the rate-limit test, tests/core/queue.test.ts:107
BURST_BATCH_SIZE == 200
\* consent/index.ts:32, the schema version of a stored consent entry
CONSENT_VERSION == 1
\* transport.ts:11
DEFAULT_MAX_RETRIES == 3

(***************************************************************************)
(* Values                                                                  *)
(***************************************************************************)
Categories == {"analytics", "marketing", "personalization"}

\* A ConsentState field is true, false or missing (types.ts: all optional).
Flags == {"true", "false", "undefined"}

ConsentOf(a, m, p) ==
    [analytics |-> a, marketing |-> m, personalization |-> p]

\* DEFAULT_CONFIG.consent.defaultConsent and the constructor's default
DEFAULT_CONSENT == ConsentOf("true", "false", "false")

\* the defaultConsent values a page configures
DefaultConsents ==
    { DEFAULT_CONSENT,
      ConsentOf("false", "false", "false"),
      ConsentOf("undefined", "undefined", "undefined") }

\* the arguments the page passes to Tracker.consent(): accept or decline
ConsentInputs ==
    { ConsentOf("true", "undefined", "undefined"),
      ConsentOf("false", "undefined", "undefined") }

\* the arguments of ConsentManager.update()
UpdateInputs ==
    ConsentInputs \cup { ConsentOf("undefined", "true", "undefined") }

\* A TrackingEvent: its identity, whether its property map can be
\* serialised by JSON.stringify (a cyclic map cannot), and the visitor
\* identifier it carries.
Event(i, c, v) == [id |-> i, circular |-> c, visitorId |-> v]

Range(s) == { s[i] : i \in 1..Len(s) }

\* JSON.stringify(events) throws on a cyclic property map
Serializable(events) == \A i \in 1..Len(events) : ~events[i].circular

VARIABLES
    \* configuration, fixed at construction
    batchSize, maxQueueSize, waitForConsent, cfgDefaultConsent,
    \* ConsentManager
    state, hasExplicitConsent, eventBuffer, defaultConsent, aliased,
    \* localStorage: the consent entry and the queue snapshot
    storedConsent, persisted,
    \* EventQueue
    queue, isFlushing,
    \* Transport: the sendEvents calls that have not settled yet
    pending,
    \* Transport: its configuration and the logical send that is running
    maxRetries, sending, attempt, phase, fetchCalls, outcomes, result,
    \* Tracker: identity configuration, the identifiers it holds, the
    \* storage locations of identifiers, the UUID source and the clock
    idMode, ids, idStore, nextUuid, clock,
    \* Tracker
    nextId, reloaded,
    \* history: the identifiers each track() call put on its event, and the
    \* identifiers the Tracker held when reset() was last called
    tracked, beforeReset,
    \* Tracker life cycle: the initialized flag, the plugin configuration,
    \* the loaded plugins, the queue's flush timer; history: the plugins
    \* destroy() was called on and the track() calls plugins made from init
    isInitialized, pluginCfg, plugins, flushTimer, destroyed, initCalls,
    \* the ScrollPlugin: its listener, milestonesReached and maxScrollDepth;
    \* history: the clamped percentages measured, the milestones passed to
    \* track(), and the track() calls of the last measurement
    scroll,
    \* the page's History object and popstate listeners, and the
    \* PageViewPlugin instances on the page (instance 1 is this Tracker's);
    \* history: what the last operation called and whether it threw
    page,
    \* ConsentManager change callbacks, and the invocations the last
    \* transition made
    callbacks, invoked,
    \* history: the last identify() argument and the sendIdentify payloads it
    \* caused; the events of batches the server rejected with a 4xx
    identified, rejected,
    \* history: what became of the events, and the last handler that ran
    accepted, delivered, discarded, startedBy, last

cfgVars == <<batchSize, maxQueueSize, waitForConsent, cfgDefaultConsent>>
consentVars == <<state, hasExplicitConsent, eventBuffer, defaultConsent, aliased, storedConsent>>
queueVars == <<queue, isFlushing, pending, persisted>>
ledgerVars == <<accepted, delivered, discarded, startedBy>>
transportVars ==
    <<maxRetries, sending, attempt, phase, fetchCalls, outcomes, result>>
identityVars == <<idMode, ids, idStore, nextUuid, clock, tracked, beforeReset>>
lifecycleVars ==
    <<isInitialized, pluginCfg, plugins, flushTimer, destroyed, initCalls,
      scroll, page>>
callbackVars == <<callbacks, invoked>>
vars == <<cfgVars, consentVars, queueVars, ledgerVars, transportVars,
          identityVars, lifecycleVars, callbackVars, identified, rejected,
          nextId, reloaded, last>>

(***************************************************************************)
(* localStorage                                                            *)
(***************************************************************************)
\* no entry under the queue storage key
NoSnapshot == [present |-> FALSE, events |-> <<>>]

Snapshot(events) == [present |-> TRUE, events |-> events]

\* no entry under the consent storage key
NoStoredConsent ==
    [present |-> FALSE, state |-> DEFAULT_CONSENT, version |-> CONSENT_VERSION]

\* the entry an SDK release with schema version v writes
ConsentEntry(s, v) == [present |-> TRUE, state |-> s, version |-> v]

\* saveConsent(): lines 37-52
StoredConsent(s) == ConsentEntry(s, CONSENT_VERSION)

\* loadConsent() that accepts an entry of any version
loadConsent_anyVersion(stored) == stored

\* loadConsent(): lines 57-76; null is NoStoredConsent
loadConsent(stored) ==
    IF stored.present /\ stored.version = CONSENT_VERSION
    THEN stored
    ELSE NoStoredConsent

\* loadConsent(), line 68: the entry of another version is removed
staleEntry(stored) == stored.present /\ stored.version # CONSENT_VERSION

(***************************************************************************)
(* EventQueue, as functions of the queue object q:                         *)
(*   q.queue, q.isFlushing, q.pending, q.persisted are the fields, the     *)
(*   outstanding sendEvents calls and the storage snapshot;                *)
(*   q.accepted, q.delivered, q.discarded are the history, q.startedBy the *)
(*   caller of the flush that last reached sendEvents;                     *)
(*   q.call names the Transport method the running handler called.         *)
(***************************************************************************)
\* persistQueue: JSON.stringify inside try/catch, then setLocalStorage
persistQueue(q, events) ==
    IF Serializable(events)
    THEN [q EXCEPT !.persisted = Snapshot(events)]
    ELSE q

\* flush() without the isFlushing test
flushGuard_noLock(q) == q.queue # <<>>

\* flush(), line 67: not while a flush is in flight, not on an empty queue
flushGuard(q) == ~q.isFlushing /\ q.queue # <<>>

\* flush(), line 75: this.queue.splice(0, this.queue.length)
splice(events) == events

\* flush() up to its await: lines 66-82, called by push() (line 59) or by
\* the timer, the page or the Tracker
flush(q, by) ==
    IF ~flushGuard(q)
    THEN q
    ELSE LET batch == splice(q.queue)
             q1 == [q EXCEPT !.isFlushing = TRUE, !.queue = <<>>]
             q2 == persistQueue(q1, <<>>)
         IN [q2 EXCEPT !.pending = Append(@, batch),
                       !.call = "sendEvents",
                       !.startedBy = by]

\* push() that never flushes on the batch threshold
push_noThreshold(q, event) ==
    [q EXCEPT !.queue = Append(@, event), !.accepted = @ \cup {event}]

\* push(): lines 47-61
push(q, event) ==
    LET q1 == IF Len(q.queue) >= maxQueueSize
              THEN [q EXCEPT !.queue = Tail(@),
                             !.discarded = @ \cup {Head(q.queue)}]
              ELSE q
        q2 == [q1 EXCEPT !.queue = Append(@, event),
                         !.accepted = @ \cup {event}]
    IN IF Len(q2.queue) >= batchSize THEN flush(q2, "push") ELSE q2

\* the loop of Tracker.onConsentChange, lines 390-394
RECURSIVE pushAll(_, _)
pushAll(q, events) ==
    IF events = <<>> THEN q
    ELSE pushAll(push(q, Head(events)), Tail(events))

\* re-queue at the back
requeue_atBack(batch, live) == live \o batch

\* this.queue.unshift(...events): lines 87 and 112
requeue(batch, live) == batch \o live

RemoveAt(s, i) == SubSeq(s, 1, i - 1) \o SubSeq(s, i + 1, Len(s))

\* flush(), line 95: finally { this.isFlushing = false }
\* a flush() without its finally block
releaseLock_never(q) == q

releaseLock(q) == [q EXCEPT !.isFlushing = FALSE]

\* flush() after its await, lines 82-96, for the i-th outstanding call.
\* outcome: "success" / "failure" are the TransportResult, "throw" is the
\* rejection of sendEvents (JSON.stringify at transport.ts:34).
settle(q, i, outcome) ==
    LET batch == q.pending[i]
        q0 == [q EXCEPT !.pending = RemoveAt(@, i)]
        q1 == CASE outcome = "success" ->
                     [q0 EXCEPT !.delivered = @ \cup Range(batch)]
                [] outcome = "failure" ->
                     LET r == [q0 EXCEPT !.queue = requeue(batch, @)]
                     IN persistQueue(r, r.queue)
                [] OTHER -> q0
    IN releaseLock(q1)

\* the outcomes sendEvents can have for a batch: it rejects exactly when
\* JSON.stringify throws; send() turns every other error into a result
sendEventsOutcomes(batch) ==
    IF Serializable(batch) THEN {"success", "failure"} ELSE {"throw"}

\* Transport.sendBeacon, lines 53-75: "unavailable" (no navigator.sendBeacon),
\* "throw" (JSON.stringify at line 60), or what navigator.sendBeacon returns
sendBeaconOutcomes(batch) ==
    {"unavailable"} \cup
    (IF Serializable(batch) THEN {"true", "false"} ELSE {"throw"})

\* flushSync() that reads the queue without removing the events
flushSync_noSplice(q, outcome) ==
    IF q.queue = <<>> THEN q
    ELSE LET q1 == [q EXCEPT !.call = "sendBeacon"]
         IN CASE outcome = "true" ->
                      [q1 EXCEPT !.delivered = @ \cup Range(q.queue)]
              [] outcome \in {"false", "unavailable"} ->
                      persistQueue(q1, q1.queue)
              [] OTHER -> q1

\* flushSync(): lines 102-115
flushSync(q, outcome) ==
    IF q.queue = <<>> THEN q
    ELSE LET batch == q.queue
             q1 == [q EXCEPT !.queue = <<>>,
                             !.call = "sendBeacon"]
         IN CASE outcome = "true" ->
                      [q1 EXCEPT !.delivered = @ \cup Range(batch)]
              [] outcome \in {"false", "unavailable"} ->
                      LET r == [q1 EXCEPT !.queue = requeue(batch, @)]
                      IN persistQueue(r, r.queue)
              [] OTHER -> q1

\* clear(): lines 127-130
clear(q) ==
    persistQueue([q EXCEPT !.queue = <<>>,
                           !.discarded = @ \cup Range(q.queue)], <<>>)

\* restoreQueue(): lines 193-206
restoreQueue(snapshot) ==
    IF snapshot.present /\ Len(snapshot.events) > 0
    THEN snapshot.events
    ELSE <<>>

\* the queue object in the current state
Q == [queue |-> queue, isFlushing |-> isFlushing, pending |-> pending,
      persisted |-> persisted, accepted |-> accepted, delivered |-> delivered,
      discarded |-> discarded, startedBy |-> startedBy, call |-> "none"]

\* the next state holds the queue object q; op names the handler that ran
SetQ(q, op) ==
    /\ queue' = q.queue
    /\ isFlushing' = q.isFlushing
    /\ pending' = q.pending
    /\ persisted' = q.persisted
    /\ accepted' = q.accepted
    /\ delivered' = q.delivered
    /\ discarded' = q.discarded
    /\ startedBy' = q.startedBy
    /\ last' = [op |-> op, call |-> q.call]

(***************************************************************************)
(* Transport.send: one logical send (sendEvents or sendIdentify) is a chain *)
(* of send(url, payload, attempt) invocations, each awaiting one fetch and, *)
(* before the next one, one delay.                                          *)
(***************************************************************************)
\* what an awaited fetch ends with: a Response, or a rejection (network
\* error, or the abort of fetchWithTimeout)
Response(status) == [kind |-> "response", status |-> status]
NetworkError == [kind |-> "error", status |-> 0]

FetchOutcomes ==
    { Response(st) : st \in {200, 204, 400, 404, 499, 500, 503} }
        \cup { NetworkError }

\* Response.ok
ok(status) == status >= 200 /\ status <= 299

\* TransportResult
NoResult == [done |-> FALSE, success |-> FALSE, status |-> 0, error |-> FALSE]
ResultOf(success, status, error) ==
    [done |-> TRUE, success |-> success, status |-> status, error |-> error]

\* send() that retries every response that is not ok
onResponse_retryAny(status, att) ==
    IF ok(status) THEN "success"
    ELSE IF att < maxRetries THEN "retry"
    ELSE "failure"

\* send(), lines 91-104: what follows a Response of attempt att
onResponse(status, att) ==
    IF ok(status) THEN "success"
    ELSE IF status >= 500 /\ att < maxRetries THEN "retry"
    ELSE "failure"

\* send() that allows one attempt more
onNetworkError_oneMore(att) ==
    IF att <= maxRetries THEN "retry" ELSE "failure"

\* send(), lines 105-115: what follows a rejected fetch of attempt att
onNetworkError(att) ==
    IF att < maxRetries THEN "retry" ELSE "failure"

\* a Transport as its constructor leaves it, lines 19-26
TransportConstructed(mr) ==
    /\ maxRetries = mr
    /\ sending = "none"
    /\ attempt = 0
    /\ phase = "idle"
    /\ fetchCalls = 0
    /\ outcomes = <<>>
    /\ result = NoResult

(***************************************************************************)
(* Visitor and session identifiers (utils/index.ts), as functions of the   *)
(* world w: w.store holds the storage locations, w.nextUuid is the next    *)
(* value of generateUUID(), w.id is the identifier the call returned.      *)
(***************************************************************************)
\* null: no identifier stored
NoId == [anon |-> FALSE, n |-> 0]

\* generateUUID(): the n-th identifier handed out
Uuid(n) == [anon |-> FALSE, n |-> n]

\* 'anon_' + generateUUID()
AnonId(n) == [anon |-> TRUE, n |-> n]

\* the locations of STORAGE_KEYS.VISITOR_ID in localStorage, in the cookie
\* and in sessionStorage, of VISITOR_ID + '_anon', SESSION_ID and
\* SESSION_TIMESTAMP in sessionStorage; failing lists the media of the
\* browser that do not work: "local" and "session" (every access throws,
\* or the quota is used up), "cookie" (no document, or cookies switched
\* off: reads find nothing, writes are dropped) and "cookieThrows"
\* (document.cookie throws a SecurityError, as in a sandboxed frame)
EmptyStore ==
    [lsVid |-> NoId, ckVid |-> NoId, ssVid |-> NoId, ssAnon |-> NoId,
     ssSid |-> NoId, ssTs |-> 0, failing |-> {}]

World(store, n) ==
    [store |-> store, nextUuid |-> n, id |-> NoId, threw |-> FALSE]

\* the medium of a storage location
mediumOf(key) ==
    CASE key = "lsVid" -> "local"
      [] key = "ckVid" -> "cookie"
      [] OTHER -> "session"

\* getLocalStorage / getSessionStorage, lines 36-45 and 65-74, and the
\* read half of cookie(), lines 98-101: null when the medium fails
getStorage(store, key) ==
    IF mediumOf(key) \in store.failing THEN NoId ELSE store[key]

\* setLocalStorage / setSessionStorage, lines 50-60 and 79-89, and the
\* write half of cookie(), lines 103-111
setStorage(store, key, value) ==
    IF mediumOf(key) \in store.failing
    THEN store
    ELSE [store EXCEPT ![key] = value]

\* cookie(), lines 94-112, has no try/catch: an exception of
\* document.cookie leaves it
cookieThrows(store) == "cookieThrows" \in store.failing

\* getOrCreateVisitorId(useCookies): lines 121-145
getOrCreateVisitorId(w, useCookies) ==
    LET key == IF useCookies THEN "ckVid" ELSE "lsVid"
        found == getStorage(w.store, key)
        fresh == Uuid(w.nextUuid)
    IN IF useCookies /\ cookieThrows(w.store)
       THEN [w EXCEPT !.threw = TRUE]
       ELSE IF found # NoId
       THEN [w EXCEPT !.id = found]
       ELSE [w EXCEPT !.id = fresh,
                      !.nextUuid = @ + 1,
                      !.store = setStorage(@, key, fresh)]

\* getOrCreateSessionId(timeout): lines 150-168, called at time now
getOrCreateSessionId(w, timeout, now) ==
    LET lastActivity == IF "session" \in w.store.failing THEN 0
                                                         ELSE w.store.ssTs
    IN IF getStorage(w.store, "ssSid") = NoId
          \/ now - lastActivity > timeout
       THEN [w EXCEPT !.id = Uuid(w.nextUuid),
                      !.nextUuid = @ + 1,
                      !.store = setStorage(
                                    setStorage(@, "ssSid",
                                               Uuid(w.nextUuid)),
                                    "ssTs", now)]
       ELSE [w EXCEPT !.id = w.store.ssSid,
                      !.store = setStorage(@, "ssTs", now)]

\* resetIds(useCookies): lines 173-192
resetIds(w, useCookies) ==
    LET s1 == IF useCookies THEN [w.store EXCEPT !.ckVid = NoId]
                            ELSE [w.store EXCEPT !.lsVid = NoId]
    IN [w EXCEPT !.store = [s1 EXCEPT !.ssSid = NoId, !.ssTs = 0]]

\* Tracker.createVisitorId(): tracker.ts:341-365
createVisitorId(w, mode, hasExplicit) ==
    IF mode.anonymousMode /\ ~hasExplicit
    THEN IF getStorage(w.store, "ssAnon") # NoId
         THEN [w EXCEPT !.id = w.store.ssAnon]
         ELSE [w EXCEPT !.id = AnonId(w.nextUuid),
                        !.nextUuid = @ + 1,
                        !.store = setStorage(@, "ssAnon",
                                             AnonId(w.nextUuid))]
    ELSE IF mode.cookielessMode
    THEN IF getStorage(w.store, "ssVid") # NoId
         THEN [w EXCEPT !.id = w.store.ssVid]
         ELSE [w EXCEPT !.id = Uuid(w.nextUuid),
                        !.nextUuid = @ + 1,
                        !.store = setStorage(@, "ssVid", Uuid(w.nextUuid))]
    ELSE getOrCreateVisitorId(w, mode.useCookies)

\* Tracker.createSessionId(): tracker.ts:370-372
createSessionId(w, mode, now) ==
    getOrCreateSessionId(w, mode.sessionTimeout, now)

\* this.visitorId = this.createVisitorId();
\* this.sessionId = this.createSessionId();   (tracker.ts:324-325, 564-565)
\* the result holds both identifiers in w.ids
createIds(w, mode, hasExplicit, now) ==
    LET v == createVisitorId(w, mode, hasExplicit)
        z == createSessionId(v, mode, now)
    IN [store |-> z.store, nextUuid |-> z.nextUuid,
        ids |-> [visitorId |-> v.id, sessionId |-> z.id]]

\* the storage locations that hold the identifier id
Holding(store, id) ==
    { k \in {"lsVid", "ckVid", "ssVid", "ssAnon"} : store[k] = id }

\* the identity part of the configuration: DEFAULT_CONFIG is all off; the
\* session timeout is one unit of the clock
IdMode(anonymous, cookieless, cookies, timeout) ==
    [anonymousMode |-> anonymous, cookielessMode |-> cookieless,
     useCookies |-> cookies, sessionTimeout |-> timeout]

DEFAULT_MODE == IdMode(FALSE, FALSE, FALSE, 1)

\* the identifiers of a Tracker constructed at time 0 over empty storage
IdentityConstructed(mode, hasExplicit) ==
    LET c == createIds(World(EmptyStore, 1), mode, hasExplicit, 0)
    IN /\ idMode = mode
       /\ ids = c.ids
       /\ idStore = c.store
       /\ nextUuid = c.nextUuid
       /\ clock = 0
       /\ tracked = <<>>
       /\ beforeReset = c.ids

(***************************************************************************)
(* ConsentManager                                                          *)
(***************************************************************************)
\* canTrack() that looks at the analytics flag only
canTrack_flagOnly == state.analytics = "true"

\* canTrack(): lines 235-241
canTrack ==
    IF waitForConsent /\ ~hasExplicitConsent
    THEN FALSE
    ELSE state.analytics = "true"

\* the constructor, lines 140-150: stored consent wins over the default
LoadConsent(stored, default) ==
    LET loaded == loadConsent(stored)
    IN /\ state' = IF loaded.present THEN loaded.state ELSE default
       /\ hasExplicitConsent' = loaded.present
       /\ aliased' = ~loaded.present
       /\ storedConsent' = IF staleEntry(stored) THEN NoStoredConsent
                                                ELSE stored

\* grant(categories), lines 161-167, before notifyChange; categories is a
\* function on the categories the caller supplied
grant(categories) ==
    /\ state' = [c \in Categories |->
                    IF c \in DOMAIN categories THEN categories[c] ELSE state[c]]
    /\ aliased' = FALSE
    /\ hasExplicitConsent' = TRUE
    /\ storedConsent' = StoredConsent(state')
    /\ UNCHANGED defaultConsent

\* revoke() that forces every category to false
revoke_all(categories) ==
    /\ state' = [c \in Categories |-> "false"]
    /\ defaultConsent' = IF aliased THEN state' ELSE defaultConsent
    /\ hasExplicitConsent' = TRUE
    /\ storedConsent' = StoredConsent(state')
    /\ UNCHANGED aliased

\* revoke(categories), lines 175-184, before notifyChange: an assignment to
\* the object this.state refers to, which may be config.defaultConsent
revoke(categories) ==
    /\ state' = [c \in Categories |->
                    IF c \in categories THEN "false" ELSE state[c]]
    /\ defaultConsent' = IF aliased THEN state' ELSE defaultConsent
    /\ hasExplicitConsent' = TRUE
    /\ storedConsent' = StoredConsent(state')
    /\ UNCHANGED aliased

\* update(state), lines 192-198, before notifyChange
update(s) ==
    /\ state' = s
    /\ aliased' = FALSE
    /\ hasExplicitConsent' = TRUE
    /\ storedConsent' = StoredConsent(s)
    /\ UNCHANGED defaultConsent

\* reset(), lines 206-213, before notifyChange; the Tracker's callback then
\* finds the buffer empty and releases nothing
reset ==
    /\ state' = defaultConsent
    /\ aliased' = TRUE
    /\ hasExplicitConsent' = FALSE
    /\ storedConsent' = NoStoredConsent
    /\ eventBuffer' = <<>>
    /\ UNCHANGED defaultConsent

\* bufferEvent(): lines 260-263
bufferEvent(buffer, event) == Append(buffer, event)

\* A change callback is a function (its identity id) and what it does when
\* invoked: return ("plain"), throw ("throws"), or call the unsubscribe
\* function its own registration returned ("once").
Callback(id, kind) == [id |-> id, kind |-> kind]

\* Array.prototype.indexOf, counted from 1; 0 when absent
indexOf(cbs, cb) ==
    IF \E i \in 1..Len(cbs) : cbs[i] = cb
    THEN CHOOSE i \in 1..Len(cbs) :
             cbs[i] = cb /\ \A j \in 1..(i - 1) : cbs[j] # cb
    ELSE 0

\* the function onChange() returns, lines 290-295
unsubscribe(cbs, cb) ==
    IF indexOf(cbs, cb) > 0
    THEN SubSeq(cbs, 1, indexOf(cbs, cb) - 1)
             \o SubSeq(cbs, indexOf(cbs, cb) + 1, Len(cbs))
    ELSE cbs

\* notifyChange(previous), lines 301-309, from position i of the array on:
\* `for (const callback of this.callbacks)` reads the array as it is at
\* each step; an exception of a callback is caught and logged
RECURSIVE notifyFrom(_, _, _, _, _)
notifyFrom(cbs, i, new, previous, calls) ==
    IF i > Len(cbs)
    THEN [callbacks |-> cbs, invoked |-> calls]
    ELSE LET cb == cbs[i]
         IN notifyFrom(IF cb.kind = "once" THEN unsubscribe(cbs, cb)
                                           ELSE cbs,
                       i + 1, new, previous,
                       Append(calls, [id |-> cb.id, state |-> new,
                                      previous |-> previous]))

notifyChange(cbs, new, previous) == notifyFrom(cbs, 1, new, previous, <<>>)

\* the notification that ends grant, revoke, update and reset
Notify(new, previous) ==
    LET r == notifyChange(callbacks, new, previous)
    IN /\ callbacks' = r.callbacks
       /\ invoked' = r.invoked

(***************************************************************************)
(* Tracker                                                                 *)
(***************************************************************************)
\* state.analytics && !previous.analytics, tracker.ts:381
analyticsJustGranted(new, previous) ==
    new.analytics = "true" /\ previous.analytics # "true"

\* onConsentChange(), lines 381-386: the visitor identifier becomes the
\* persistent one
upgradeVisitorId(new, previous) ==
    IF analyticsJustGranted(new, previous) /\ idMode.anonymousMode
    THEN LET w == getOrCreateVisitorId(World(idStore, nextUuid),
                                       idMode.useCookies)
         IN /\ ids' = [ids EXCEPT !.visitorId = w.id]
            /\ idStore' = w.store
            /\ nextUuid' = w.nextUuid
    ELSE UNCHANGED <<ids, idStore, nextUuid>>

\* track(), lines 433-436: the identifiers the event is built with, and
\* the time of the call
tag(held, now) ==
    [visitorId |-> held.visitorId, sessionId |-> held.sessionId, at |-> now]

\* onConsentChange() that pushes the buffered events as they are
retag_keep(events, visitorId) == events

\* onConsentChange(), lines 391-392: event.visitorId = this.visitorId for
\* every buffered event
retag(events, visitorId) ==
    [i \in 1..Len(events) |-> [events[i] EXCEPT !.visitorId = visitorId]]

\* onConsentChange(), lines 377-396: release the buffer into the queue,
\* after upgradeVisitorId
onConsentChange(new, previous, op) ==
    IF analyticsJustGranted(new, previous)
    THEN /\ eventBuffer' = <<>>
         /\ SetQ(pushAll(Q, retag(eventBuffer, ids'.visitorId)), op)
    ELSE /\ UNCHANGED eventBuffer
         /\ SetQ(Q, op)

\* track() that has no initialized check
trackDisposition_noInitCheck(initialized, can, wfc) ==
    IF ~can THEN (IF wfc THEN "buffered" ELSE "dropped") ELSE "pushed"

\* track(), lines 429-432 and 452-462: what becomes of the call
trackDisposition(initialized, can, wfc) ==
    IF ~initialized
    THEN "ignored"
    ELSE IF ~can
         THEN (IF wfc THEN "buffered" ELSE "dropped")
         ELSE "pushed"

\* track(), lines 424-463, for the event it built
track(event) ==
    LET d == trackDisposition(isInitialized, canTrack, waitForConsent)
    IN /\ eventBuffer' = IF d = "buffered"
                         THEN bufferEvent(eventBuffer, event)
                         ELSE eventBuffer
       /\ SetQ(IF d = "pushed" THEN push(Q, event) ELSE Q, "track")

(***************************************************************************)
(* Plugins and the Tracker's life cycle.  A configured plugin is a name    *)
(* and the way its init fails, if it does: "throws" is an exception out of *)
(* init, "rejects" is a failure inside an async init (popupForms), which   *)
(* the caller sees as a promise and not as an exception.  getPlugin throws *)
(* for a name it does not know.                                            *)
(***************************************************************************)
PLUGIN_NAMES == {"pageView", "scroll", "forms", "clicks", "engagement",
                 "downloads", "exitIntent", "errors", "performance",
                 "popupForms"}

DEFAULT_PLUGINS == <<"pageView", "forms", "scroll", "clicks", "engagement",
                     "downloads", "exitIntent", "popupForms">>

Plugin(name, fault) == [name |-> name, fault |-> fault]

\* the configuration of a page that sets nothing: every default plugin,
\* none failing, autoPageView on
DEFAULT_PLUGIN_CFG ==
    [plugins |-> [i \in 1..Len(DEFAULT_PLUGINS) |->
                      Plugin(DEFAULT_PLUGINS[i], "none")],
     autoPageView |-> TRUE]

\* the configuration of a page that enables the page-view plugin only:
\* new Tracker(workspaceId, {plugins: ['pageView']})
PAGE_VIEW_ONLY_CFG ==
    [plugins |-> <<Plugin("pageView", "none")>>, autoPageView |-> TRUE]

\* getPlugin(name) throws
getPluginThrows(p) == p.name \notin PLUGIN_NAMES

\* plugin.init(tracker) throws
initThrows(p) == p.fault = "throws"

\* PageViewPlugin.init calls trackPageView() right after super.init
tracksOnInit(p) == p.name = "pageView"

\* initPlugins(), lines 405-407
filteredPlugins(cfg) ==
    IF cfg.autoPageView
    THEN cfg.plugins
    ELSE SelectSeq(cfg.plugins, LAMBDA p : p.name # "pageView")

\* one turn of the loop without the try/catch: the exception leaves
\* initPlugins
loadPlugin_noCatch(p, acc) ==
    LET called == IF ~getPluginThrows(p) /\ tracksOnInit(p)
                  THEN Append(acc.calls, p.name)
                  ELSE acc.calls
    IN IF getPluginThrows(p) \/ initThrows(p)
       THEN [acc EXCEPT !.calls = called, !.threw = TRUE]
       ELSE [acc EXCEPT !.calls = called,
                        !.loaded = Append(@, p.name)]

\* one turn of the loop of initPlugins(), lines 409-418
loadPlugin(p, acc) ==
    LET called == IF ~getPluginThrows(p) /\ tracksOnInit(p)
                  THEN Append(acc.calls, p.name)
                  ELSE acc.calls
    IN IF getPluginThrows(p) \/ initThrows(p)
       THEN [acc EXCEPT !.calls = called]
       ELSE [acc EXCEPT !.calls = called,
                        !.loaded = Append(@, p.name)]

RECURSIVE loadPlugins(_, _)
loadPlugins(todo, acc) ==
    IF todo = <<>> \/ acc.threw
    THEN acc
    ELSE loadPlugins(Tail(todo), loadPlugin(Head(todo), acc))

\* initPlugins(), lines 401-419: the plugins loaded, the track() calls the
\* inits made, and whether an exception left the method
initPlugins(cfg) ==
    loadPlugins(filteredPlugins(cfg),
                [loaded |-> <<>>, calls |-> <<>>, threw |-> FALSE])

(***************************************************************************)
(* PageViewPlugin and the History object it patches.  A function stored    *)
(* in history.pushState or history.replaceState is the browser's own (0)   *)
(* or the wrapper that instance p installed (p); an instance field that    *)
(* holds no function is null (-1).  page.plugin holds the instances init() *)
(* ran on.                                                                 *)
(***************************************************************************)
Native == 0

Wrapper(p) == p

Null == 0 - 1

PageViewPlugins == 1..MaxPageViewPlugins

\* a page no PageViewPlugin was initialised on
PristinePage ==
    [pushState |-> Native, replaceState |-> Native, listeners |-> <<>>,
     plugin |-> [p \in {} |-> Null], calls |-> <<>>, threw |-> FALSE]

inited(pg, p) == p \in DOMAIN pg.plugin

\* this.tracker of instance p is set: between init() and destroy()
alive(pg, p) == inited(pg, p) /\ pg.plugin[p].tracker

\* trackPageView() and BasePlugin.track(), pageView.ts:66-77 and
\* base.ts:22-31: the track() calls instance p makes
trackPageView(pg, p) == IF alive(pg, p) THEN <<p>> ELSE <<>>

\* calling the function f stored in a History method; slot names the
\* instance field its wrapper reads (lines 31-39).  Applying a null
\* original is a TypeError, raised before trackPageView.
RECURSIVE callHistory(_, _, _)
callHistory(pg, f, slot) ==
    IF f = Native
    THEN [calls |-> <<>>, threw |-> FALSE]
    ELSE LET original == pg.plugin[f][slot]
         IN IF original = Null
            THEN [calls |-> <<>>, threw |-> TRUE]
            ELSE LET r == callHistory(pg, original, slot)
                 IN IF r.threw
                    THEN r
                    ELSE [r EXCEPT !.calls = @ \o trackPageView(pg, f)]

\* PageViewPlugin.init(), lines 18-46; found... keep what init() saw
\* installed
pageViewInit(pg, p) ==
    LET me == [tracker |-> TRUE,
               originalPushState |-> pg.pushState,
               originalReplaceState |-> pg.replaceState,
               foundPushState |-> pg.pushState,
               foundReplaceState |-> pg.replaceState]
    IN [pg EXCEPT
          !.plugin = [q \in DOMAIN pg.plugin \cup {p} |->
                         IF q = p THEN me ELSE pg.plugin[q]],
          !.calls = <<p>>,
          !.threw = FALSE,
          !.pushState = Wrapper(p),
          !.replaceState = Wrapper(p),
          !.listeners = Append(@, p)]

\* destroy() that leaves the History methods as they are
pageViewDestroy_noRestore(pg, p) ==
    [pg EXCEPT
       !.calls = <<>>,
       !.threw = FALSE,
       !.plugin[p].originalPushState = Null,
       !.plugin[p].originalReplaceState = Null,
       !.listeners = SelectSeq(@, LAMBDA q : q # p),
       !.plugin[p].tracker = FALSE]

\* PageViewPlugin.destroy(), lines 48-64, of an instance init() ran on
pageViewDestroy(pg, p) ==
    LET me == pg.plugin[p]
    IN [pg EXCEPT
          !.calls = <<>>,
          !.threw = FALSE,
          !.pushState = IF me.originalPushState # Null
                        THEN me.originalPushState
                        ELSE @,
          !.plugin[p].originalPushState = Null,
          !.replaceState = IF me.originalReplaceState # Null
                           THEN me.originalReplaceState
                           ELSE @,
          !.plugin[p].originalReplaceState = Null,
          !.listeners = SelectSeq(@, LAMBDA q : q # p),
          !.plugin[p].tracker = FALSE]

\* history.pushState(...) as the page calls it
pushState(pg) ==
    LET r == callHistory(pg, pg.pushState, "originalPushState")
    IN [pg EXCEPT !.calls = r.calls, !.threw = r.threw]

\* history.replaceState(...) as the page calls it
replaceState(pg) ==
    LET r == callHistory(pg, pg.replaceState, "originalReplaceState")
    IN [pg EXCEPT !.calls = r.calls, !.threw = r.threw]

\* the browser dispatches popstate to the listeners, in registration
\* order (line 43)
RECURSIVE dispatch(_, _)
dispatch(pg, listeners) ==
    IF listeners = <<>> THEN <<>>
    ELSE trackPageView(pg, Head(listeners)) \o dispatch(pg, Tail(listeners))

popstate(pg) ==
    [pg EXCEPT !.calls = dispatch(pg, pg.listeners), !.threw = FALSE]

\* the PageViewPlugin of this Tracker
OWN_PAGE_VIEW == 1

(***************************************************************************)
(* ScrollPlugin.  A measurement reads scrollTop and the scrollable range   *)
(* documentHeight - windowHeight.  The ranges are 8, 0 and -8 pixels: the  *)
(* quotients scrollTop / 8 and their products with 100 are exact in        *)
(* floating point, 0 / 0 is NaN and k / 0 is Infinity.                     *)
(***************************************************************************)
SCROLL_MILESTONES == <<25, 50, 75, 100>>

ScrollRanges == {-8, 0, 8}

NaN == [nan |-> TRUE, n |-> 0]

Num(n) == [nan |-> FALSE, n |-> n]

\* Math.floor((scrollTop / range) * 100) for range # 0, scrollTop >= 0
scrollPercent(scrollTop, range) ==
    IF range > 0
    THEN (scrollTop * 100) \div range
    ELSE 0 - ((scrollTop * 100 + (0 - range) - 1) \div (0 - range))

\* trackScrollDepth(), lines 85-91: Math.max(0, Math.min(100, percent));
\* Infinity clamps to 100, NaN stays NaN
clampedPercent(scrollTop, range) ==
    IF range = 0
    THEN (IF scrollTop = 0 THEN NaN ELSE Num(100))
    ELSE LET percent == scrollPercent(scrollTop, range)
         IN Num(IF percent > 100 THEN 100
                ELSE IF percent < 0 THEN 0 ELSE percent)

\* a milestone test without the milestonesReached check
fires_again(clamped, reached, milestone) ==
    ~clamped.nan /\ clamped.n >= milestone

\* trackScrollDepth(), line 100; every comparison with NaN is false
fires(clamped, reached, milestone) ==
    ~clamped.nan /\ clamped.n >= milestone /\ milestone \notin reached

\* the plugin after construction and init(), lines 46-62
ScrollConstructed(listening) ==
    [listening |-> listening, milestonesReached |-> {}, maxScrollDepth |-> 0,
     measured |-> {}, emitted |-> <<>>, calls |-> <<>>]

\* trackScrollDepth(), lines 82-109, for one measurement
trackScrollDepth(s, clamped) ==
    LET deepest == IF ~clamped.nan /\ clamped.n > s.maxScrollDepth
                   THEN clamped.n
                   ELSE s.maxScrollDepth
        passed(m) == fires(clamped, s.milestonesReached, m)
        fired == SelectSeq(SCROLL_MILESTONES, passed)
    IN [s EXCEPT !.maxScrollDepth = deepest,
                 !.milestonesReached =
                     @ \cup { fired[i] : i \in 1..Len(fired) },
                 !.measured = IF clamped.nan THEN @ ELSE @ \cup {clamped.n},
                 !.emitted = @ \o fired,
                 !.calls = [i \in 1..Len(fired) |->
                               [depth |-> fired[i], maxDepth |-> deepest]]]

\* the value of isInitialized while the constructor runs initPlugins():
\* the field starts false (line 295) and is set on line 334, after
\* initPlugins() on line 331
INITIALIZED_DURING_INIT_PLUGINS == FALSE

\* the constructor from initPlugins() on, lines 331-335; an exception out
\* of initPlugins leaves the constructor before line 334
LifecycleOn(cfg, pg) ==
    LET r == initPlugins(cfg)
    IN /\ pluginCfg = cfg
       /\ plugins = r.loaded
       /\ initCalls =
              [i \in 1..Len(r.calls) |->
                  [plugin |-> r.calls[i],
                   disposition |->
                       trackDisposition(INITIALIZED_DURING_INIT_PLUGINS,
                                        canTrack, waitForConsent)]]
       /\ isInitialized = ~r.threw
       /\ flushTimer = TRUE
       /\ destroyed = <<>>
       /\ scroll = ScrollConstructed(\E i \in DOMAIN r.loaded :
                                         r.loaded[i] = "scroll")
       /\ page = IF \E i \in DOMAIN r.loaded : r.loaded[i] = "pageView"
                 THEN pageViewInit(pg, OWN_PAGE_VIEW)
                 ELSE pg

\* the constructor on a page no other Tracker was built on
LifecycleConstructed(cfg) == LifecycleOn(cfg, PristinePage)

\* no change callback registered through onChange, no identify() call
\* made, no batch rejected
ObserversConstructed ==
    /\ callbacks = <<>>
    /\ invoked = <<>>
    /\ identified = [email |-> "", calls |-> <<>>]
    /\ rejected = {}

(***************************************************************************)
(* The pipeline: one action per entry point of a page                      *)
(***************************************************************************)
BatchSizes == {1, 2}
MaxQueueSizes == {1, 2}

\* The state after `new Tracker(workspaceId, config)` on a first visit
\* (empty storage): tracker.ts:298-336, consent/index.ts:132-156,
\* queue.ts:25-42.
PipelineConstructed(bs, mq, wfc, dc, stored) ==
    /\ batchSize = bs
    /\ maxQueueSize = mq
    /\ waitForConsent = wfc
    /\ cfgDefaultConsent = dc
    /\ defaultConsent = dc
    /\ storedConsent = stored
    /\ state = IF stored.present THEN stored.state ELSE dc
    /\ hasExplicitConsent = stored.present
    /\ aliased = ~stored.present
    /\ eventBuffer = <<>>
    /\ persisted = NoSnapshot
    /\ queue = <<>>
    /\ isFlushing = FALSE
    /\ pending = <<>>
    /\ nextId = 1
    /\ reloaded = FALSE
    /\ accepted = {}
    /\ delivered = {}
    /\ discarded = {}
    /\ startedBy = "none"
    /\ last = [op |-> "init", call |-> "none"]

\* the Tracker constructs its Transport with the endpoint only
\* (tracker.ts:318), so maxRetries is the default; the page of the pipeline
\* specifications enables the page-view plugin only
Constructed(bs, mq, wfc, dc, stored) ==
    /\ PipelineConstructed(bs, mq, wfc, dc, stored)
    /\ TransportConstructed(DEFAULT_MAX_RETRIES)
    /\ IdentityConstructed(DEFAULT_MODE, stored.present)
    /\ LifecycleConstructed(PAGE_VIEW_ONLY_CFG)
    /\ ObserversConstructed

\* the defaultConsent values of the pipeline's pages: analytics allowed,
\* or not (a missing flag gates and releases exactly as a false one does,
\* lines 235-241 and tracker.ts:381)
PipelineDefaults == { DEFAULT_CONSENT, ConsentOf("false", "false", "false") }

Init ==
    \E bs \in BatchSizes, mq \in MaxQueueSizes, wfc \in BOOLEAN,
       dc \in PipelineDefaults :
        Constructed(bs, mq, wfc, dc, NoStoredConsent)

\* the page calls tracker.track(), or a plugin does
Track ==
    /\ nextId <= MaxEvents
    /\ \E circular \in BOOLEAN : track(Event(nextId, circular, ids.visitorId))
    /\ nextId' = nextId + 1
    /\ tracked' = IF isInitialized THEN Append(tracked, tag(ids, clock))
                                    ELSE tracked
    /\ UNCHANGED <<cfgVars, lifecycleVars, callbackVars, identified, rejected,
                   transportVars, state, hasExplicitConsent,
                   defaultConsent, aliased, storedConsent, reloaded,
                   idMode, ids, idStore, nextUuid, clock, beforeReset>>

\* the page calls tracker.consent(state): ConsentManager.update and the
\* Tracker's change callback
Consent ==
    /\ \E s \in ConsentInputs :
          /\ update(s)
          /\ upgradeVisitorId(s, state)
          /\ onConsentChange(s, state, "consent")
    /\ UNCHANGED <<cfgVars, lifecycleVars, callbackVars, identified, rejected,
                   transportVars, nextId, reloaded,
                   idMode, clock, tracked, beforeReset>>

\* tracker.flush(), or the interval timer of startFlushTimer
Flush ==
    /\ SetQ(flush(Q, "flush"), "flush")
    /\ UNCHANGED <<cfgVars, lifecycleVars, callbackVars, identified, rejected,
                   transportVars, identityVars, consentVars, nextId, reloaded>>

\* an outstanding sendEvents call settles and flush() resumes
Settle ==
    /\ \E i \in 1..Len(pending) :
          \E outcome \in sendEventsOutcomes(pending[i]) :
              SetQ(settle(Q, i, outcome), outcome)
    /\ UNCHANGED <<cfgVars, lifecycleVars, callbackVars, identified, rejected,
                   transportVars, identityVars, consentVars, nextId, reloaded>>

\* beforeunload, visibilitychange to hidden, or pagehide
FlushSync ==
    /\ \E outcome \in sendBeaconOutcomes(queue) :
          SetQ(flushSync(Q, outcome), "flushSync")
    /\ UNCHANGED <<cfgVars, lifecycleVars, callbackVars, identified, rejected,
                   transportVars, identityVars, consentVars, nextId, reloaded>>

\* tracker.reset(), lines 561-567: the queue is cleared (the identifiers
\* are followed by ResetTracker)
Reset ==
    /\ SetQ(clear(Q), "reset")
    /\ UNCHANGED <<cfgVars, lifecycleVars, callbackVars, identified, rejected,
                   transportVars, identityVars, consentVars, nextId, reloaded>>

\* tracker.deleteData(), lines 572-612; what it does to the identifiers
\* is in DeleteDataTracker
DeleteData ==
    /\ reset
    /\ SetQ([clear(Q) EXCEPT !.persisted = NoSnapshot], "deleteData")
    /\ UNCHANGED <<cfgVars, lifecycleVars, callbackVars, identified, rejected,
                   transportVars, identityVars, nextId, reloaded>>

\* the visitor comes back: a new Tracker is constructed over the storage the
\* first page life left; the requests still in flight are out of reach
Reload ==
    /\ ~reloaded
    /\ reloaded' = TRUE
    /\ LoadConsent(storedConsent, cfgDefaultConsent)
    /\ defaultConsent' = cfgDefaultConsent
    /\ eventBuffer' = <<>>
    /\ queue' = restoreQueue(persisted)
    /\ isFlushing' = FALSE
    /\ pending' = <<>>
    /\ accepted' = Range(queue')
    /\ last' = [op |-> "reload", call |-> "none"]
    /\ UNCHANGED <<cfgVars, lifecycleVars, callbackVars, identified, rejected,
                   transportVars, identityVars, persisted, nextId,
                   delivered, discarded, startedBy>>

Next ==
    \/ Track
    \/ Consent
    \/ Flush
    \/ Settle
    \/ FlushSync
    \/ Reset
    \/ DeleteData
    \/ Reload

Spec == Init /\ [][Next]_vars

(***************************************************************************)
(* A burst of track() calls inside one rate-limit window, with the queue   *)
(* configured as in tests/core/queue.test.ts:106-109 (no auto-flush) and   *)
(* the default queue size.                                                 *)
(***************************************************************************)
InitBurst ==
    \E wfc \in BOOLEAN :
        Constructed(BURST_BATCH_SIZE, MAX_QUEUE_SIZE, wfc, DEFAULT_CONSENT,
                    NoStoredConsent)

BurstTrack ==
    /\ nextId <= BurstLen
    /\ track(Event(nextId, FALSE, ids.visitorId))
    /\ nextId' = nextId + 1
    /\ tracked' = Append(tracked, tag(ids, clock))
    /\ UNCHANGED <<cfgVars, lifecycleVars, callbackVars, identified, rejected,
                   transportVars, state, hasExplicitConsent,
                   defaultConsent, aliased, storedConsent, reloaded,
                   idMode, ids, idStore, nextUuid, clock, beforeReset>>

NextBurst == BurstTrack

SpecBurst == InitBurst /\ [][NextBurst]_vars

(***************************************************************************)
(* A ConsentManager on its own (no change callback registered), driven     *)
(* through its public methods as tests/consent/consent.test.ts does.       *)
(***************************************************************************)
\* the arguments of grant(): the categories the caller names
GrantInputs ==
    { ("analytics" :> "true"),
      ("marketing" :> "true"),
      ("analytics" :> "true" @@ "marketing" :> "false") }

\* the arguments of revoke()
RevokeInputs ==
    { {"analytics"}, {"marketing"}, {"marketing", "personalization"} }

\* the consent entries an earlier visit can have left in storage
StoredInputs ==
    { NoStoredConsent } \cup { StoredConsent(s) : s \in UpdateInputs }

InitConsent ==
    \E wfc \in BOOLEAN, dc \in DefaultConsents, stored \in StoredInputs :
        Constructed(DEFAULT_BATCH_SIZE, MAX_QUEUE_SIZE, wfc, dc, stored)

Grant ==
    /\ \E categories \in GrantInputs : grant(categories)
    /\ Notify(state', state)
    /\ last' = [op |-> "grant", call |-> "none"]
    /\ UNCHANGED <<cfgVars, lifecycleVars, identified, rejected,
                   transportVars, identityVars, eventBuffer, queueVars,
                   ledgerVars, nextId, reloaded>>

Revoke ==
    /\ \E categories \in RevokeInputs : revoke(categories)
    /\ Notify(state', state)
    /\ last' = [op |-> "revoke", call |-> "none"]
    /\ UNCHANGED <<cfgVars, lifecycleVars, identified, rejected,
                   transportVars, identityVars, eventBuffer, queueVars,
                   ledgerVars, nextId, reloaded>>

Update ==
    /\ \E s \in UpdateInputs : update(s)
    /\ Notify(state', state)
    /\ last' = [op |-> "update", call |-> "none"]
    /\ UNCHANGED <<cfgVars, lifecycleVars, identified, rejected,
                   transportVars, identityVars, eventBuffer, queueVars,
                   ledgerVars, nextId, reloaded>>

ResetConsent ==
    /\ reset
    /\ Notify(state', state)
    /\ last' = [op |-> "reset", call |-> "none"]
    /\ UNCHANGED <<cfgVars, lifecycleVars, identified, rejected,
                   transportVars, identityVars, queueVars, ledgerVars,
                   nextId, reloaded>>

BufferEvent ==
    /\ nextId <= MaxEvents
    /\ eventBuffer' = bufferEvent(eventBuffer,
                                  Event(nextId, FALSE, ids.visitorId))
    /\ nextId' = nextId + 1
    /\ last' = [op |-> "bufferEvent", call |-> "none"]
    /\ UNCHANGED <<cfgVars, lifecycleVars, callbackVars, identified, rejected,
                   transportVars, identityVars, state, hasExplicitConsent, defaultConsent, aliased,
                   storedConsent, queueVars, ledgerVars, reloaded>>

\* flushBuffer(): lines 268-275
FlushBuffer ==
    /\ eventBuffer' = <<>>
    /\ last' = [op |-> "flushBuffer", call |-> "none"]
    /\ UNCHANGED <<cfgVars, lifecycleVars, callbackVars, identified, rejected,
                   transportVars, identityVars, state, hasExplicitConsent, defaultConsent, aliased,
                   storedConsent, queueVars, ledgerVars, nextId, reloaded>>

NextConsent ==
    \/ Grant
    \/ Revoke
    \/ Update
    \/ ResetConsent
    \/ BufferEvent
    \/ FlushBuffer

SpecConsent == InitConsent /\ [][NextConsent]_vars

(***************************************************************************)
(* A ConsentManager whose page registers change callbacks through          *)
(* onChange() and calls the unsubscribe functions it got back.             *)
(***************************************************************************)
\* the functions the page registers
CallbackInputs ==
    { Callback(1, "plain"), Callback(2, "throws"), Callback(3, "once") }

InitCallbacks ==
    \E dc \in DefaultConsents :
        Constructed(DEFAULT_BATCH_SIZE, MAX_QUEUE_SIZE, FALSE, dc,
                    NoStoredConsent)

\* onChange(callback), lines 287-289
OnChange ==
    /\ Len(callbacks) < MaxCallbacks
    /\ \E cb \in CallbackInputs : callbacks' = Append(callbacks, cb)
    /\ last' = [op |-> "onChange", call |-> "none"]
    /\ UNCHANGED <<cfgVars, lifecycleVars, invoked, identified, rejected,
                   transportVars, identityVars, consentVars, queueVars,
                   ledgerVars, nextId, reloaded>>

\* the page calls an unsubscribe function
Unsubscribe ==
    /\ \E cb \in Range(callbacks) : callbacks' = unsubscribe(callbacks, cb)
    /\ last' = [op |-> "unsubscribe", call |-> "none"]
    /\ UNCHANGED <<cfgVars, lifecycleVars, invoked, identified, rejected,
                   transportVars, identityVars, consentVars, queueVars,
                   ledgerVars, nextId, reloaded>>

NextCallbacks ==
    \/ Grant
    \/ Revoke
    \/ Update
    \/ ResetConsent
    \/ OnChange
    \/ Unsubscribe

SpecCallbacks == InitCallbacks /\ [][NextCallbacks]_vars

(***************************************************************************)
(* A visitor's consent over several page loads: each load constructs a new *)
(* ConsentManager over the entry localStorage holds, and the entry may     *)
(* have been written by another release of the SDK.                        *)
(***************************************************************************)
\* the schema versions of other releases
OtherVersions == {CONSENT_VERSION - 1, CONSENT_VERSION + 1}

\* a page running another release saves the visitor's consent
OtherRelease ==
    /\ \E s \in UpdateInputs, v \in OtherVersions :
          storedConsent' = ConsentEntry(s, v)
    /\ last' = [op |-> "otherRelease", call |-> "none"]
    /\ UNCHANGED <<cfgVars, lifecycleVars, callbackVars, identified, rejected,
                   transportVars, identityVars, state, hasExplicitConsent, eventBuffer,
                   defaultConsent, aliased, queueVars, ledgerVars, nextId,
                   reloaded>>

\* new ConsentManager(config) on the next page load: lines 132-156
Construct ==
    /\ LoadConsent(storedConsent, cfgDefaultConsent)
    /\ defaultConsent' = cfgDefaultConsent
    /\ eventBuffer' = <<>>
    /\ last' = [op |-> "construct",
                call |-> IF staleEntry(storedConsent) THEN "clearConsent"
                                                      ELSE "none"]
    /\ UNCHANGED <<cfgVars, lifecycleVars, callbackVars, identified, rejected,
                   transportVars, identityVars, queueVars, ledgerVars, nextId, reloaded>>

NextRevisit ==
    \/ Grant
    \/ Revoke
    \/ Update
    \/ ResetConsent
    \/ OtherRelease
    \/ Construct

SpecRevisit == InitConsent /\ [][NextRevisit]_vars

(***************************************************************************)
(* The identifiers of one Tracker during one page life, in every identity  *)
(* mode, on a first visit (empty storage, no stored consent), with time    *)
(* passing between the calls of the page.                                  *)
(***************************************************************************)
SessionTimeouts == {1}

IdModes ==
    { IdMode(a, c, k, t) : a \in BOOLEAN, c \in BOOLEAN, k \in BOOLEAN,
                           t \in SessionTimeouts }

InitIdentity ==
    \E mode \in IdModes, wfc \in BOOLEAN, dc \in ConsentInputs :
        /\ PipelineConstructed(DEFAULT_BATCH_SIZE, MAX_QUEUE_SIZE, wfc, dc,
                               NoStoredConsent)
        /\ TransportConstructed(DEFAULT_MAX_RETRIES)
        /\ IdentityConstructed(mode, FALSE)
        /\ LifecycleConstructed(DEFAULT_PLUGIN_CFG)
        /\ ObserversConstructed

\* time passes
Tick ==
    /\ clock < MaxClock
    /\ clock' = clock + 1
    /\ last' = [op |-> "tick", call |-> "none"]
    /\ UNCHANGED <<cfgVars, lifecycleVars, callbackVars, identified, rejected,
                   consentVars, queueVars, ledgerVars, transportVars,
                   idMode, ids, idStore, nextUuid, tracked, beforeReset,
                   nextId, reloaded>>

\* tracker.reset(), lines 561-567
ResetTracker ==
    /\ nextUuid + 1 <= MaxUuids
    /\ LET r == resetIds(World(idStore, nextUuid), idMode.useCookies)
           c == createIds(r, idMode, hasExplicitConsent, clock)
       IN /\ ids' = c.ids
          /\ idStore' = c.store
          /\ nextUuid' = c.nextUuid
    /\ beforeReset' = ids
    /\ tracked' = <<>>
    /\ SetQ(clear(Q), "reset")
    /\ UNCHANGED <<cfgVars, lifecycleVars, callbackVars, identified, rejected,
                   consentVars, transportVars, idMode, clock,
                   nextId, reloaded>>

NextIdentity ==
    \/ Track
    \/ Consent
    \/ Tick
    \/ ResetTracker

SpecIdentity == InitIdentity /\ [][NextIdentity]_vars

(***************************************************************************)
(* A Transport on its own, as tests/consent/consent.test.ts constructs it, *)
(* performing one logical send after another against a server that answers *)
(* each fetch with any status or not at all.                               *)
(***************************************************************************)
InitTransport ==
    \E mr \in 0..MaxRetriesBound :
        /\ PipelineConstructed(DEFAULT_BATCH_SIZE, MAX_QUEUE_SIZE, FALSE,
                               DEFAULT_CONSENT, NoStoredConsent)
        /\ TransportConstructed(mr)
        /\ IdentityConstructed(DEFAULT_MODE, FALSE)
        /\ LifecycleConstructed(DEFAULT_PLUGIN_CFG)
        /\ ObserversConstructed

\* sendEvents() / sendIdentify(), lines 32-47: JSON.stringify, then
\* send(url, payload) with attempt = 1, up to its first await
SendStart ==
    /\ phase \in {"idle", "done"}
    /\ \E kind \in {"sendEvents", "sendIdentify"}, circular \in BOOLEAN :
          /\ sending' = kind
          /\ outcomes' = <<>>
          /\ IF circular
             THEN /\ phase' = "done"
                  /\ attempt' = 0
                  /\ fetchCalls' = 0
                  /\ result' = NoResult
                  /\ last' = [op |-> "throw", call |-> kind]
             ELSE /\ phase' = "fetch"
                  /\ attempt' = 1
                  /\ fetchCalls' = 1
                  /\ result' = NoResult
                  /\ last' = [op |-> "send", call |-> kind]
    /\ UNCHANGED <<cfgVars, lifecycleVars, callbackVars, identified, rejected,
                   consentVars, queueVars, ledgerVars, identityVars, maxRetries,
                   nextId, reloaded>>

\* the awaited fetch of send() settles: lines 91-115
FetchSettles ==
    /\ phase = "fetch"
    /\ \E outcome \in FetchOutcomes :
          LET next == IF outcome.kind = "response"
                      THEN onResponse(outcome.status, attempt)
                      ELSE onNetworkError(attempt)
          IN /\ outcomes' = Append(outcomes, outcome)
             /\ phase' = IF next = "retry" THEN "delay" ELSE "done"
             /\ result' =
                   CASE next = "retry" -> NoResult
                     [] next = "success" -> ResultOf(TRUE, outcome.status, FALSE)
                     [] OTHER -> ResultOf(FALSE, outcome.status,
                                          outcome.kind = "error")
             /\ last' = [op |-> next, call |-> "none"]
    /\ UNCHANGED <<cfgVars, lifecycleVars, callbackVars, identified, rejected,
                   consentVars, queueVars, ledgerVars, identityVars, maxRetries,
                   sending, attempt, fetchCalls, nextId, reloaded>>

\* the awaited delay of send() ends: send(url, payload, attempt + 1) up to
\* its await, lines 99-100 and 110-111
DelayEnds ==
    /\ phase = "delay"
    /\ phase' = "fetch"
    /\ attempt' = attempt + 1
    /\ fetchCalls' = fetchCalls + 1
    /\ last' = [op |-> "send", call |-> sending]
    /\ UNCHANGED <<cfgVars, lifecycleVars, callbackVars, identified, rejected,
                   consentVars, queueVars, ledgerVars, identityVars, maxRetries,
                   sending, outcomes, result, nextId, reloaded>>

NextTransport ==
    \/ SendStart
    \/ FetchSettles
    \/ DelayEnds

SpecTransport == InitTransport /\ [][NextTransport]_vars

(***************************************************************************)
(* The delivery specification: the EventQueue of a Tracker that may track  *)
(* (default consent, no waiting), with the TransportResult of every        *)
(* sendEvents call spelled out: success, a 4xx rejection, or the failure   *)
(* send() reports once its retries of a 5xx or of a network error are used *)
(* up.  SpecDeliveryFair adds the scheduling the code sets up: the         *)
(* interval timer of startFlushTimer keeps calling flush(), and a server   *)
(* that is asked again and again eventually answers 2xx.                   *)
(***************************************************************************)
\* the results Transport.sendEvents(batch) can resolve to; NoResult stands
\* for the promise rejecting (JSON.stringify throws, transport.ts:34)
SendResults(batch) ==
    IF Serializable(batch)
    THEN { ResultOf(TRUE, 200, FALSE), ResultOf(FALSE, 400, FALSE),
           ResultOf(FALSE, 503, FALSE), ResultOf(FALSE, 0, TRUE) }
    ELSE { NoResult }

\* flush(), lines 82-91: the branch a result takes; the only test is
\* !result.success
outcomeOf(r) ==
    IF ~r.done THEN "throw"
    ELSE IF r.success THEN "success"
    ELSE "failure"

\* the result is a rejection by the server: {success: false, status: 4xx}
Rejection(r) ==
    r.done /\ ~r.success /\ ~r.error /\ r.status >= 400 /\ r.status < 500

InitDelivery ==
    \E bs \in BatchSizes, mq \in MaxQueueSizes :
        Constructed(bs, mq, FALSE, DEFAULT_CONSENT, NoStoredConsent)

\* an outstanding sendEvents call resolves to a TransportResult (or
\* rejects) and flush() resumes
SettleResult ==
    /\ \E i \in 1..Len(pending) :
          \E r \in SendResults(pending[i]) :
              /\ SetQ(settle(Q, i, outcomeOf(r)), outcomeOf(r))
              /\ rejected' = IF Rejection(r)
                             THEN rejected \cup Range(pending[i])
                             ELSE rejected
    /\ UNCHANGED <<cfgVars, lifecycleVars, callbackVars, identified,
                   transportVars, identityVars, consentVars, nextId,
                   reloaded>>

NextDelivery == Track \/ Flush \/ SettleResult \/ FlushSync

SpecDelivery == InitDelivery /\ [][NextDelivery]_vars

\* the same queue between page load and unload, under the timer
NextTimer == Track \/ Flush \/ SettleResult

SpecDeliveryFair ==
    /\ InitDelivery
    /\ [][NextTimer]_vars
    /\ WF_vars(Flush)
    /\ SF_vars(SettleResult /\ last'.op = "success")

(***************************************************************************)
(* The identify specification: the Tracker of SpecIdentity, with the page  *)
(* calling identify() and deleteData() between its other calls.            *)
(***************************************************************************)
\* the email arguments of identify(): empty, and not
Emails == {"", "a@example.com"}

\* identify() that sends whatever the email
identify_noEmailCheck(email, visitorId) ==
    <<[visitorId |-> visitorId, email |-> email]>>

\* identify(), lines 479-499: the sendIdentify payloads of one call
identify(email, visitorId) ==
    IF email = ""
    THEN <<>>
    ELSE <<[visitorId |-> visitorId, email |-> email]>>

\* the page calls tracker.identify(email)
Identify ==
    /\ \E email \in Emails :
          LET calls == identify(email, ids.visitorId)
          IN /\ identified' = [email |-> email, calls |-> calls]
             /\ last' = [op |-> "identify",
                         call |-> IF calls = <<>> THEN "none"
                                                  ELSE "sendIdentify"]
    /\ UNCHANGED <<cfgVars, lifecycleVars, callbackVars, rejected,
                   transportVars, identityVars, consentVars, queueVars,
                   ledgerVars, nextId, reloaded>>

\* deleteData() that leaves the anonymous identifier in sessionStorage
purgeStorage_keepAnon(w) ==
    [w EXCEPT !.store = [@ EXCEPT !.ssVid = NoId, !.ssSid = NoId,
                                  !.ssTs = 0, !.lsVid = NoId]]

\* deleteData(), lines 585-605: the identifier entries removed from
\* sessionStorage and localStorage
purgeStorage(w) ==
    [w EXCEPT !.store = [@ EXCEPT !.ssVid = NoId, !.ssAnon = NoId,
                                  !.ssSid = NoId, !.ssTs = 0,
                                  !.lsVid = NoId]]

\* tracker.deleteData(), lines 572-612, with the identifiers: the queue is
\* cleared, ConsentManager.reset() notifies the Tracker's callback (which
\* upgrades the visitor identifier when the default grants analytics the
\* visitor had declined, and finds the buffer empty), the identifiers are
\* removed from storage and created anew
DeleteDataTracker ==
    LET w0 == World(idStore, nextUuid)
        w1 == IF analyticsJustGranted(defaultConsent, state)
                 /\ idMode.anonymousMode
              THEN getOrCreateVisitorId(w0, idMode.useCookies)
              ELSE w0
        w2 == purgeStorage(resetIds(w1, idMode.useCookies))
        c == createIds(w2, idMode, FALSE, clock)
    IN /\ c.nextUuid <= MaxUuids + 1
       /\ reset
       /\ ids' = c.ids
       /\ idStore' = c.store
       /\ nextUuid' = c.nextUuid
       /\ beforeReset' = ids
       /\ tracked' = <<>>
       /\ SetQ([clear(Q) EXCEPT !.persisted = NoSnapshot], "deleteData")
       /\ UNCHANGED <<cfgVars, lifecycleVars, callbackVars, identified,
                      rejected, transportVars, idMode, clock, nextId,
                      reloaded>>

NextIdentify ==
    \/ Track
    \/ Consent
    \/ Identify
    \/ ResetTracker
    \/ DeleteDataTracker

SpecIdentify == InitIdentity /\ [][NextIdentify]_vars

(***************************************************************************)
(* Release of the consent buffer: pages that wait for consent, in every    *)
(* identity mode; events are tracked, consent changes, the queue is        *)
(* flushed and the visitor logs out.                                       *)
(***************************************************************************)
InitRelease ==
    \E mode \in IdModes, dc \in ConsentInputs :
        /\ PipelineConstructed(DEFAULT_BATCH_SIZE, MAX_QUEUE_SIZE, TRUE, dc,
                               NoStoredConsent)
        /\ TransportConstructed(DEFAULT_MAX_RETRIES)
        /\ IdentityConstructed(mode, FALSE)
        /\ LifecycleConstructed(DEFAULT_PLUGIN_CFG)
        /\ ObserversConstructed

NextRelease ==
    \/ Track
    \/ Consent
    \/ Flush
    \/ Settle
    \/ ResetTracker

SpecRelease == InitRelease /\ [][NextRelease]_vars

(***************************************************************************)
(* createVisitorId() on its own: the constructor has built the             *)
(* ConsentManager (over a stored consent entry or none) and reaches line   *)
(* 324 in a browser whose storage media work or fail; the method is then   *)
(* called again and again, as reset() and deleteData() do.                 *)
(***************************************************************************)
\* the ways the storage of a browser fails
Failures ==
    { ss \cup ls \cup ck :
        ss \in {{}, {"session"}}, ls \in {{}, {"local"}},
        ck \in {{}, {"cookie"}, {"cookie", "cookieThrows"}} }

InitVisitorId ==
    \E mode \in IdModes, failing \in Failures,
       stored \in {NoStoredConsent, StoredConsent(DEFAULT_CONSENT)} :
        /\ PipelineConstructed(DEFAULT_BATCH_SIZE, MAX_QUEUE_SIZE, FALSE,
                               DEFAULT_CONSENT, stored)
        /\ TransportConstructed(DEFAULT_MAX_RETRIES)
        /\ idMode = mode
        /\ ids = [visitorId |-> NoId, sessionId |-> NoId]
        /\ idStore = [EmptyStore EXCEPT !.failing = failing]
        /\ nextUuid = 1
        /\ clock = 0
        /\ tracked = <<>>
        /\ beforeReset = ids
        /\ LifecycleConstructed(DEFAULT_PLUGIN_CFG)
        /\ ObserversConstructed

\* this.visitorId = this.createVisitorId(), lines 324, 564 and 607; an
\* exception leaves the assignment undone
CreateVisitorId ==
    LET w == createVisitorId(World(idStore, nextUuid), idMode,
                             hasExplicitConsent)
    IN /\ w.nextUuid <= MaxUuids + 1
       /\ ids' = IF w.threw THEN ids ELSE [ids EXCEPT !.visitorId = w.id]
       /\ beforeReset' = ids
       /\ idStore' = w.store
       /\ nextUuid' = w.nextUuid
       /\ last' = [op |-> "createVisitorId",
                   call |-> IF w.threw THEN "throw" ELSE "none"]
       /\ UNCHANGED <<cfgVars, lifecycleVars, callbackVars, identified,
                      rejected, consentVars, queueVars, ledgerVars,
                      transportVars, idMode, clock, tracked, nextId,
                      reloaded>>

NextVisitorId == CreateVisitorId

SpecVisitorId == InitVisitorId /\ [][NextVisitorId]_vars

(***************************************************************************)
(* The life-cycle specification: a Tracker constructed with any small      *)
(* plugin configuration, used, and destroyed; track() keeps being called   *)
(* after destroy(), by the page or by a listener that outlived its plugin. *)
(***************************************************************************)
PluginInputs ==
    { Plugin("pageView", "none"), Plugin("pageView", "throws"),
      Plugin("forms", "none"), Plugin("forms", "throws"),
      Plugin("popupForms", "none"), Plugin("popupForms", "rejects"),
      Plugin("unknown", "none") }

PluginCfgs ==
    { [plugins |-> ps, autoPageView |-> apv] :
        ps \in UNION { [1..n -> PluginInputs] : n \in 0..MaxPlugins },
        apv \in BOOLEAN }

InitLifecycle ==
    \E cfg \in PluginCfgs, wfc \in BOOLEAN,
       dc \in ConsentInputs :
        /\ PipelineConstructed(DEFAULT_BATCH_SIZE, MAX_QUEUE_SIZE, wfc, dc,
                               NoStoredConsent)
        /\ TransportConstructed(DEFAULT_MAX_RETRIES)
        /\ IdentityConstructed(DEFAULT_MODE, FALSE)
        /\ LifecycleConstructed(cfg)
        /\ ObserversConstructed

\* tracker.destroy(), lines 617-635, with EventQueue.destroy(),
\* queue.ts:135-140
Destroy ==
    /\ SetQ(flush(Q, "destroy"), "destroy")
    /\ destroyed' = destroyed \o plugins
    /\ plugins' = <<>>
    /\ flushTimer' = FALSE
    /\ isInitialized' = FALSE
    /\ scroll' = [scroll EXCEPT !.listening = FALSE]
    /\ page' = IF \E i \in DOMAIN plugins : plugins[i] = "pageView"
               THEN pageViewDestroy(page, OWN_PAGE_VIEW)
               ELSE page
    /\ UNCHANGED <<cfgVars, callbackVars, identified, rejected,
                   transportVars, identityVars, consentVars, nextId,
                   reloaded, pluginCfg, initCalls>>

\* the interval callback of startFlushTimer, queue.ts:145-153, while the
\* interval is not cleared
TimerFlush ==
    /\ flushTimer
    /\ SetQ(flush(Q, "timer"), "timer")
    /\ UNCHANGED <<cfgVars, lifecycleVars, callbackVars, identified, rejected,
                   transportVars, identityVars, consentVars, nextId, reloaded>>

NextLifecycle == Track \/ Flush \/ TimerFlush \/ Settle \/ Destroy

SpecLifecycle == InitLifecycle /\ [][NextLifecycle]_vars

(***************************************************************************)
(* The ScrollPlugin of a page: the debounce timer of handleScroll runs     *)
(* trackScrollDepth for the position the page is at, until destroy().      *)
(***************************************************************************)
ScrollTops == 0..MaxScrollTop

InitScroll ==
    \E wfc \in BOOLEAN, dc \in ConsentInputs :
        /\ PipelineConstructed(DEFAULT_BATCH_SIZE, MAX_QUEUE_SIZE, wfc, dc,
                               NoStoredConsent)
        /\ TransportConstructed(DEFAULT_MAX_RETRIES)
        /\ IdentityConstructed(DEFAULT_MODE, FALSE)
        /\ LifecycleConstructed(DEFAULT_PLUGIN_CFG)
        /\ ObserversConstructed

\* the timeout callback of handleScroll, base.ts:76-80, and the track()
\* calls it makes through BasePlugin.track (lines 22-31)
TrackScrollDepth ==
    /\ scroll.listening
    /\ \E scrollTop \in ScrollTops, range \in ScrollRanges :
          scroll' = trackScrollDepth(scroll, clampedPercent(scrollTop, range))
    /\ LET d == trackDisposition(isInitialized, canTrack, waitForConsent)
           events == [i \in 1..Len(scroll'.calls) |->
                         Event(nextId + i - 1, FALSE, ids.visitorId)]
       IN /\ eventBuffer' = IF d = "buffered" THEN eventBuffer \o events
                                               ELSE eventBuffer
          /\ SetQ(IF d = "pushed" THEN pushAll(Q, events) ELSE Q, "scroll")
    /\ nextId' = nextId + Len(scroll'.calls)
    /\ tracked' = IF isInitialized
                  THEN tracked \o [i \in 1..Len(scroll'.calls) |->
                                      tag(ids, clock)]
                  ELSE tracked
    /\ UNCHANGED <<cfgVars, callbackVars, identified, rejected,
                   transportVars, idMode, ids, idStore, nextUuid, clock,
                   beforeReset, state, hasExplicitConsent,
                   defaultConsent, aliased, storedConsent, reloaded,
                   isInitialized, pluginCfg, plugins, flushTimer, destroyed,
                   initCalls, page>>

NextScroll == TrackScrollDepth \/ Destroy

SpecScroll == InitScroll /\ [][NextScroll]_vars

(***************************************************************************)
(* Several Trackers on one page: this Tracker, constructed with the        *)
(* pageView plugin before or after another one, the PageViewPlugin         *)
(* instances of the other Trackers (their init and destroy), and the page  *)
(* navigating through the History API.                                     *)
(***************************************************************************)
OtherPageViews == PageViewPlugins \ {OWN_PAGE_VIEW}

InitHistory ==
    \E earlier \in {0} \cup OtherPageViews :
        /\ PipelineConstructed(DEFAULT_BATCH_SIZE, MAX_QUEUE_SIZE, FALSE,
                               DEFAULT_CONSENT, NoStoredConsent)
        /\ TransportConstructed(DEFAULT_MAX_RETRIES)
        /\ IdentityConstructed(DEFAULT_MODE, FALSE)
        /\ LifecycleOn(PAGE_VIEW_ONLY_CFG,
                       IF earlier = 0
                       THEN PristinePage
                       ELSE pageViewInit(PristinePage, earlier))
        /\ ObserversConstructed

\* the constructor of another Tracker runs init() of its PageViewPlugin
PageViewInit ==
    /\ \E p \in OtherPageViews :
          /\ ~inited(page, p)
          /\ page' = pageViewInit(page, p)
    /\ last' = [op |-> "pageViewInit", call |-> "none"]
    /\ UNCHANGED <<cfgVars, callbackVars, identified, rejected,
                   transportVars, identityVars, consentVars, queueVars,
                   ledgerVars, nextId, reloaded, isInitialized, pluginCfg,
                   plugins, flushTimer, destroyed, initCalls, scroll>>

\* destroy() of another Tracker runs destroy() of its PageViewPlugin
PageViewDestroy ==
    /\ \E p \in OtherPageViews :
          /\ inited(page, p)
          /\ page' = pageViewDestroy(page, p)
    /\ last' = [op |-> "pageViewDestroy", call |-> "none"]
    /\ UNCHANGED <<cfgVars, callbackVars, identified, rejected,
                   transportVars, identityVars, consentVars, queueVars,
                   ledgerVars, nextId, reloaded, isInitialized, pluginCfg,
                   plugins, flushTimer, destroyed, initCalls, scroll>>

\* what a navigation does to this Tracker: the track() call of its own
\* PageViewPlugin, if that instance made one
Navigated(pg, op) ==
    LET own == \E i \in DOMAIN pg.calls : pg.calls[i] = OWN_PAGE_VIEW
        d == trackDisposition(isInitialized, canTrack, waitForConsent)
        event == Event(nextId, FALSE, ids.visitorId)
    IN /\ own => nextId <= MaxEvents
       /\ page' = pg
       /\ eventBuffer' = IF own /\ d = "buffered"
                         THEN bufferEvent(eventBuffer, event)
                         ELSE eventBuffer
       /\ SetQ(IF own /\ d = "pushed" THEN push(Q, event) ELSE Q, op)
       /\ nextId' = IF own THEN nextId + 1 ELSE nextId
       /\ tracked' = IF own /\ isInitialized
                     THEN Append(tracked, tag(ids, clock))
                     ELSE tracked
       /\ UNCHANGED <<cfgVars, callbackVars, identified, rejected,
                      transportVars, idMode, ids, idStore, nextUuid, clock,
                      beforeReset, state, hasExplicitConsent, defaultConsent,
                      aliased, storedConsent, reloaded, isInitialized,
                      pluginCfg, plugins, flushTimer, destroyed, initCalls,
                      scroll>>

\* the page calls history.pushState
PushState == Navigated(pushState(page), "pushState")

\* the page calls history.replaceState
ReplaceState == Navigated(replaceState(page), "replaceState")

\* the visitor goes back or forward
PopState == Navigated(popstate(page), "popstate")

NextHistory ==
    \/ PageViewInit
    \/ PageViewDestroy
    \/ Destroy
    \/ PushState
    \/ ReplaceState
    \/ PopState

SpecHistory == InitHistory /\ [][NextHistory]_vars

(***************************************************************************)
(* Properties                                                              *)
(***************************************************************************)
\* the events of the outstanding sendEvents calls
InFlight == UNION { Range(pending[i]) : i \in 1..Len(pending) }

Min(a, b) == IF a <= b THEN a ELSE b

\* C1: no handler hands events to Transport.sendEvents or
\* Transport.sendBeacon while canTrack() is false.
C1_NoTransportWhileBlocked ==
    last.call \in {"sendEvents", "sendBeacon"} => canTrack

\* C2: the in-memory queue never holds more than maxQueueSize events.
C2_QueueBounded == Len(queue) <= maxQueueSize

\* C3: of the push() calls of one window, only the first RATE_LIMIT enter
\* the queue (no flush happens in the burst configuration).
C3_RateLimited ==
    ~waitForConsent => Len(queue) = Min(nextId - 1, RATE_LIMIT)

\* C4: at most one sendEvents call of flush() is outstanding, a flush()
\* requested meanwhile changes nothing, and no event is in two batches or in
\* a batch and the queue at once.
C4_SingleFlight ==
    /\ Len(pending) <= 1
    /\ \A i, j \in 1..Len(pending) :
          i # j => Range(pending[i]) \cap Range(pending[j]) = {}
    /\ InFlight \cap Range(queue) = {}
    /\ (last.op = "flush" /\ last.call = "none" /\ queue # <<>>) =>
          (isFlushing /\ Len(pending) = 1)

\* C4 witness: flush() was requested on a non-empty queue while a flush was
\* pending, and was dropped
C4_Witness ==
    /\ last.op = "flush"
    /\ last.call = "none"
    /\ queue # <<>>
    /\ Len(pending) = 1

C6_NoSilentLoss ==
    accepted \subseteq (Range(queue) \cup InFlight \cup delivered \cup discarded)

\* the length of the queue once push() has appended to it
LengthAfterPush ==
    (IF Len(queue) >= maxQueueSize THEN Len(queue) - 1 ELSE Len(queue)) + 1

\* a Track step whose event passed the consent gate
PushStep == last'.op = "track" /\ canTrack /\ nextId' = nextId + 1

\* C7 as stated: once the sendEvents call of a flush that push() started
\* succeeds, the queue is empty.
C7_EmptyAfterSuccess ==
    (last.op = "success" /\ startedBy = "push") => Len(queue) = 0

\* C7, amended: a push() that makes the queue reach batchSize while no
\* flush is in flight hands the whole queue, in queue order and ending with
\* the pushed event, to sendEvents in one call and leaves the queue empty;
\* when the call succeeds nothing is put back, so the queue holds only what
\* was pushed after the flush started.
C7_ThresholdFlush ==
    [][/\ (PushStep /\ ~isFlushing /\ LengthAfterPush >= batchSize) =>
              /\ last'.call = "sendEvents"
              /\ startedBy' = "push"
              /\ queue' = <<>>
              /\ pending' = Append(pending, pending'[Len(pending')])
              /\ LET batch == pending'[Len(pending')]
                     before == SubSeq(batch, 1, Len(batch) - 1)
                 IN /\ Len(batch) = LengthAfterPush
                    /\ batch[Len(batch)].id = nextId
                    /\ before = IF Len(queue) >= maxQueueSize
                                THEN Tail(queue) ELSE queue
       /\ last'.op = "success" =>
              /\ queue' = queue
              /\ \E i \in 1..Len(pending) :
                    /\ Range(pending[i]) \cap Range(queue') = {}
                    /\ Range(pending[i]) \subseteq delivered']_vars

\* C7 witness: the threshold flush of events 1 and 2 (batchSize 2) has
\* succeeded and the queue is empty
C7_Witness ==
    /\ last.op = "success"
    /\ startedBy = "push"
    /\ batchSize = 2
    /\ ~reloaded
    /\ delivered = {Event(1, FALSE, ids.visitorId),
                   Event(2, FALSE, ids.visitorId)}
    /\ queue = <<>>

\* C8: canTrack() is false while waitForConsent is set and no explicit
\* consent is on record; otherwise it is true exactly when the analytics
\* flag is true.
C8_CanTrackContract ==
    IF waitForConsent /\ ~storedConsent.present
    THEN ~canTrack
    ELSE canTrack <=> state.analytics = "true"

\* C8 witness: waitForConsent with analytics true by default, back to "no
\* consent on record" after a reset(), and tracking is blocked
C8_Witness ==
    /\ waitForConsent
    /\ last.op = "reset"
    /\ state.analytics = "true"
    /\ ~storedConsent.present
    /\ ~canTrack

\* C9: with waitForConsent, once tracker.consent() has been called with
\* analytics = true the consent buffer is empty (its events were pushed).
C9_BufferReleased ==
    (waitForConsent /\ last.op = "consent" /\ state.analytics = "true") =>
        eventBuffer = <<>>

\* C10: the consent buffer never holds more than MAX_BUFFER_SIZE events.
C10_BufferCapped == Len(eventBuffer) <= MAX_BUFFER_SIZE

\* C11: grant() sets exactly the categories it is given and revoke() sets
\* exactly the categories it is given to false, both leaving every other
\* category as it was; update() replaces the whole state; a grant of
\* analytics to a manager whose analytics flag was not true turns canTrack()
\* from false to true.
C11_ConsentFrame ==
    [][/\ last'.op = "grant" =>
              /\ \E categories \in GrantInputs :
                    \A c \in Categories :
                        state'[c] = IF c \in DOMAIN categories
                                    THEN categories[c] ELSE state[c]
              /\ (state'.analytics = "true" /\ state.analytics # "true") =>
                    (~canTrack /\ canTrack')
       /\ last'.op = "revoke" =>
              \E categories \in RevokeInputs :
                  \A c \in Categories :
                      state'[c] = IF c \in categories THEN "false"
                                                      ELSE state[c]
       /\ last'.op = "update" => state' \in UpdateInputs]_vars

\* C11 witness: revoke(['marketing']) on a state with analytics granted and
\* the two other categories unset has set marketing only
C11_Witness ==
    /\ last.op = "revoke"
    /\ state = ConsentOf("true", "false", "undefined")

\* C12: after reset() the state is the defaultConsent the manager was
\* configured with, no explicit consent is on record, the event buffer is
\* empty and the stored consent entry is gone.
C12_ResetToDefault ==
    last.op = "reset" =>
        /\ state = cfgDefaultConsent
        /\ ~hasExplicitConsent
        /\ eventBuffer = <<>>
        /\ ~storedConsent.present

\* C13: a ConsentManager constructed over a stored entry of the current
\* schema version takes its state from the entry, with explicit consent on
\* record; over an entry of another version (or over none) it takes the
\* configured default, with no explicit consent, and no entry is left.
C13_VersionedLoad ==
    [][last'.op = "construct" =>
          IF storedConsent.present /\ storedConsent.version = CONSENT_VERSION
          THEN /\ state' = storedConsent.state
               /\ hasExplicitConsent'
               /\ storedConsent' = storedConsent
          ELSE /\ state' = cfgDefaultConsent
               /\ ~hasExplicitConsent'
               /\ ~storedConsent'.present]_vars

\* C13 witness: a manager configured default-denied was constructed over an
\* entry of another version, which it removed
C13_Witness ==
    /\ last.op = "construct"
    /\ last.call = "clearConsent"
    /\ state = cfgDefaultConsent
    /\ state.analytics = "false"
    /\ ~hasExplicitConsent
    /\ ~storedConsent.present

\* the attempt outcomes after which send() may go on: a 5xx Response or a
\* rejected fetch
Transient(outcome) == outcome.kind = "error" \/ outcome.status >= 500

\* a Response that is neither ok nor a server error
ClientError(outcome) ==
    outcome.kind = "response" /\ ~ok(outcome.status) /\ outcome.status < 500

Max(a, b) == IF a >= b THEN a ELSE b

\* C14: a Response that is not 2xx and below 500 ends the logical send at
\* once, whatever maxRetries is: no fetch follows it, the result is
\* {success: false, status}, and when it answers the first attempt the send
\* has made exactly one fetch call.
C14_NoRetryOnClientError ==
    \A i \in 1..Len(outcomes) :
        ClientError(outcomes[i]) =>
            /\ i = Len(outcomes)
            /\ fetchCalls = i
            /\ phase = "done"
            /\ result = ResultOf(FALSE, outcomes[i].status, FALSE)

\* C14 witness: a Transport with retries left got a 400 on its first
\* attempt and returned the failure after one fetch call
C14_Witness ==
    /\ maxRetries = DEFAULT_MAX_RETRIES
    /\ outcomes = <<Response(400)>>
    /\ fetchCalls = 1
    /\ result = ResultOf(FALSE, 400, FALSE)

\* the attempts of a logical send run one after another: a fetch is made
\* only when every earlier one has settled
OneAtATime ==
    fetchCalls = Len(outcomes) + (IF phase = "fetch" THEN 1 ELSE 0)

\* a 2xx Response ends the logical send with a success
StopsAtFirstOk ==
    \A i \in 1..Len(outcomes) :
        (outcomes[i].kind = "response" /\ ok(outcomes[i].status)) =>
            /\ i = Len(outcomes)
            /\ phase = "done"
            /\ result.success

\* every attempt of the finished logical send ended in a 5xx or an error
AllFailed ==
    /\ phase = "done"
    /\ outcomes # <<>>
    /\ \A i \in 1..Len(outcomes) : Transient(outcomes[i])

\* C15 as stated: a logical send never makes more than maxRetries fetch
\* calls, and when every attempt fails it returns a failure after exactly
\* maxRetries fetch calls.
C15_ExactlyMaxRetries ==
    /\ fetchCalls <= maxRetries
    /\ AllFailed => (fetchCalls = maxRetries /\ ~result.success)

\* C15, amended: the attempts run one after another, the first 2xx ends the
\* send with a success, and the send never makes more than
\* max(1, maxRetries) fetch calls: when every attempt fails it returns a
\* failure after exactly max(1, maxRetries) fetch calls.
C15_BoundedRetry ==
    /\ OneAtATime
    /\ StopsAtFirstOk
    /\ fetchCalls <= Max(1, maxRetries)
    /\ AllFailed =>
          /\ fetchCalls = Max(1, maxRetries)
          /\ result.done /\ ~result.success

\* C15 witness: with maxRetries 3, a 500, a network error and a 503 made
\* the send fail after three fetch calls
C15_Witness ==
    /\ maxRetries = 3
    /\ outcomes = <<Response(500), NetworkError, Response(503)>>
    /\ fetchCalls = 3
    /\ result = ResultOf(FALSE, 503, FALSE)

\* C16: after tracker.reset() the visitor identifier and the session
\* identifier both differ from the ones held before the call, and no
\* storage location holds the old visitor identifier, in every identity
\* mode.
C16_ResetRegenerates ==
    last.op = "reset" =>
        /\ ids.visitorId # beforeReset.visitorId
        /\ ids.sessionId # beforeReset.sessionId
        /\ Holding(idStore, beforeReset.visitorId) = {}

\* C17: every track() call refreshes the last-activity timestamp, and of
\* two consecutive track() calls of one Tracker the later event carries the
\* session identifier of the earlier one exactly when at most sessionTimeout
\* passed between them.
C17_SlidingExpiry ==
    /\ tracked # <<>> => idStore.ssTs = tracked[Len(tracked)].at
    /\ \A i \in 1..(Len(tracked) - 1) :
          (tracked[i + 1].sessionId = tracked[i].sessionId)
              <=> (tracked[i + 1].at - tracked[i].at <= idMode.sessionTimeout)

\* C18: in anonymous mode on a first visit the visitor identifier is an
\* 'anon_' one while no explicit consent is on record, and once
\* tracker.consent() has been called with analytics = true it is a
\* persistent identifier without the prefix.
C18_AnonymousUpgrade ==
    idMode.anonymousMode =>
        /\ ~hasExplicitConsent => ids.visitorId.anon
        /\ (last.op = "consent" /\ state.analytics = "true") =>
              (~ids.visitorId.anon /\ Holding(idStore, ids.visitorId) # {})

\* C19: after every EventQueue operation the stored snapshot mirrors the
\* in-memory queue: an EventQueue constructed over it restores exactly the
\* queued events.
C19_SnapshotMirrorsQueue == restoreQueue(persisted) = queue

\* C20: no event of a batch that was sent successfully (by flush() or by
\* flushSync()) or that is in flight is in the stored snapshot, so an
\* EventQueue constructed over the snapshot does not restore it.
C20_NoDuplicateOnReload ==
    Range(restoreQueue(persisted)) \cap (delivered \cup InFlight) = {}

\* C21: flushSync() on a non-empty queue either delivers the whole queue
\* through the beacon and leaves the queue empty, or (beacon failed or
\* unavailable) leaves the queue with the same events in the same order and
\* a stored snapshot equal to it.
C21_FlushSyncAllOrNothing ==
    [][(last'.op = "flushSync" /\ queue # <<>>) =>
          \/ /\ queue' = <<>>
             /\ Range(queue) \subseteq delivered'
          \/ /\ queue' = queue
             /\ persisted' = Snapshot(queue)]_vars

\* C22: a track() call made while the tracker is not initialized (after
\* destroy()) changes neither the event queue nor the consent buffer nor
\* the stored snapshot, and makes no transport call.
C22_NoTrackingWhenNotInitialized ==
    [][(last'.op = "track" /\ ~isInitialized) =>
          /\ queue' = queue
          /\ eventBuffer' = eventBuffer
          /\ pending' = pending
          /\ persisted' = persisted
          /\ last'.call = "none"]_vars

\* track() was called after destroy(), with consent to track
C22_Witness ==
    /\ last.op = "track"
    /\ ~isInitialized
    /\ ~flushTimer
    /\ canTrack
    /\ queue = <<>>

PageViewEnabled ==
    /\ pluginCfg.autoPageView
    /\ \E i \in DOMAIN pluginCfg.plugins :
          pluginCfg.plugins[i] = Plugin("pageView", "none")

\* C23: right after the construction of a Tracker with the pageView plugin
\* enabled, autoPageView true and canTrack() true, the page view of the
\* initial load has been pushed to the event queue.
C23_InitialPageViewTracked ==
    (last.op = "init" /\ PageViewEnabled /\ canTrack) =>
        \E i \in DOMAIN initCalls :
            /\ initCalls[i].plugin = "pageView"
            /\ initCalls[i].disposition = "pushed"

Healthy(p) == ~getPluginThrows(p) /\ ~initThrows(p)

HealthyPlugins ==
    LET ps == SelectSeq(filteredPlugins(pluginCfg), Healthy)
    IN [i \in 1..Len(ps) |-> ps[i].name]

C24_IdentifyBypassesQueueAndConsent ==
    [][last'.op = "identify" =>
          /\ queue' = queue
          /\ eventBuffer' = eventBuffer
          /\ pending' = pending
          /\ identified'.calls =
                IF identified'.email = ""
                THEN <<>>
                ELSE <<[visitorId |-> ids.visitorId,
                        email |-> identified'.email]>>]_vars

\* identify() sent while consent was pending and events were buffered
C24_Witness ==
    /\ last.op = "identify"
    /\ waitForConsent
    /\ ~canTrack
    /\ eventBuffer # <<>>
    /\ Len(identified.calls) = 1

StoredIds(store) ==
    { store[k] : k \in {"lsVid", "ckVid", "ssVid", "ssAnon", "ssSid"} }
        \ {NoId}

\* C25: right after deleteData() the event queue and the consent buffer
\* are empty, the consent state is the configured default and not explicit,
\* storage holds neither a consent entry nor a queue snapshot, every
\* identifier in storage was generated by the call, and the visitor and
\* session identifiers differ from the ones held before, in every identity
\* mode.
C25_DeleteDataErasesEverything ==
    [][last'.op = "deleteData" =>
          /\ queue' = <<>>
          /\ eventBuffer' = <<>>
          /\ state' = cfgDefaultConsent
          /\ ~hasExplicitConsent'
          /\ ~storedConsent'.present
          /\ ~persisted'.present
          /\ \A id \in StoredIds(idStore') : id.n >= nextUuid
          /\ ids'.visitorId # ids.visitorId
          /\ ids'.sessionId # ids.sessionId
          /\ ids'.visitorId \in StoredIds(idStore')
          /\ ids'.sessionId \in StoredIds(idStore')]_vars

\* deleteData() of an anonymous-mode visitor whose events were queued
C25_Witness ==
    /\ last.op = "deleteData"
    /\ idMode.anonymousMode
    /\ ids.visitorId.anon
    /\ beforeReset.visitorId.anon
    /\ discarded # {}

\* C26: no event of a batch the server rejected with a 4xx is handed to
\* the transport again, by sendEvents or by sendBeacon.
C26_NoResendAfterRejection ==
    [][/\ last'.call = "sendEvents" =>
             Range(pending'[Len(pending')]) \cap rejected = {}
       /\ last'.call = "sendBeacon" =>
             Range(queue) \cap rejected = {}]_vars

Sorted(events) ==
    \A i \in 1..Len(events), j \in 1..Len(events) :
        i < j => events[i].id < events[j].id

\* C29: the in-memory queue lists its events in push order, and so does
\* every batch handed to sendEvents; a sendBeacon batch is the queue as it
\* was.
C29_PushOrder ==
    /\ Sorted(queue)
    /\ \A i \in 1..Len(pending) : Sorted(pending[i])

\* a batch that failed after the server had rejected it once is back in
\* front of an event pushed while it was in flight
C29_Witness ==
    /\ last.op = "failure"
    /\ Len(queue) = 2
    /\ queue[1] \in rejected
    /\ queue[2] \notin rejected

AllEvents ==
    { Event(i, c, Uuid(1)) : i \in 1..MaxEvents, c \in BOOLEAN }

\* C30: with the flush timer firing and the transport eventually
\* succeeding, every event in the queue is eventually in a successful send
\* or evicted by the overflow rule.
C30_EventualDelivery ==
    \A e \in AllEvents :
        (e \in Range(queue)) ~> (e \in delivered \cup discarded)

Transitions == {"grant", "revoke", "update", "reset"}

\* C28: every consent transition invokes each callback registered when it
\* starts exactly once, in registration order, with the state after and the
\* state before the transition, whatever the callbacks do.
C28_EveryCallbackOnce ==
    [][last'.op \in Transitions =>
          invoked' = [i \in 1..Len(callbacks) |->
                         [id |-> callbacks[i].id, state |-> state',
                          previous |-> state]]]_vars

\* the location the configured precedence selects
SelectedKey ==
    IF idMode.anonymousMode /\ ~hasExplicitConsent THEN "ssAnon"
    ELSE IF idMode.cookielessMode THEN "ssVid"
    ELSE IF idMode.useCookies THEN "ckVid"
    ELSE "lsVid"

\* C31: every call of createVisitorId returns without throwing an
\* identifier of the location the precedence selects (anonymous and
\* 'anon_'-prefixed, cookieless, cookie, localStorage); with that storage
\* working the identifier is the stored one and the same as the call
\* before returned, with that storage failing it is a fresh one.
C31_VisitorIdPrecedence ==
    [][last'.op = "createVisitorId" =>
          /\ last'.call # "throw"
          /\ ids'.visitorId # NoId
          /\ ids'.visitorId.anon <=> (SelectedKey = "ssAnon")
          /\ IF mediumOf(SelectedKey) \in idStore.failing
             THEN /\ ids'.visitorId.n >= nextUuid
                  /\ idStore' = idStore
             ELSE /\ idStore'[SelectedKey] = ids'.visitorId
                  /\ \A k \in {"lsVid", "ckVid", "ssVid", "ssAnon"} \
                                 {SelectedKey} : idStore'[k] = idStore[k]
                  /\ last.op = "createVisitorId" =>
                        ids'.visitorId = ids.visitorId]_vars

\* the events past the consent gate
Released == Range(queue) \cup InFlight \cup delivered \cup discarded

\* C32: an event that leaves the consent buffer for the queue carries the
\* visitor identifier the tracker holds after the change (the upgraded one
\* in anonymous mode) and is otherwise as it was buffered; an event that
\* is in the queue, in flight or sent is never rewritten.
C32_RetagOnRelease ==
    [][/\ \A b \in Range(eventBuffer) :
             \/ b \in Range(eventBuffer')
             \/ /\ last'.op = "consent"
                /\ [b EXCEPT !.visitorId = ids'.visitorId] \in Range(queue')
                /\ \A e \in Released' :
                      e.id = b.id =>
                          e = [b EXCEPT !.visitorId = ids'.visitorId]
       /\ \A e \in Range(queue) \cup InFlight \cup delivered :
             \A f \in Released' \cup Range(eventBuffer') :
                 f.id = e.id => f = e]_vars

\* C32 witness: an event buffered under the anonymous identifier is in the
\* queue under the persistent one, next to an event that was sent before
C32_Witness ==
    /\ last.op = "consent"
    /\ idMode.anonymousMode
    /\ ~ids.visitorId.anon
    /\ eventBuffer = <<>>
    /\ \E e \in Range(queue) : e.visitorId = ids.visitorId
    /\ \E e \in delivered : e.visitorId # ids.visitorId

\* C33: destroy() starts a flush that holds every event queued at that
\* moment, destroys every loaded plugin and empties the plugin list, stops
\* the flush timer, so that no timer flush follows, and leaves the tracker
\* uninitialized.
C33_DestroyOrder ==
    [][/\ last'.op = "destroy" =>
             /\ queue # <<>> =>
                   /\ last'.call = "sendEvents"
                   /\ pending' = Append(pending, queue)
             /\ queue' = <<>>
             /\ destroyed' = destroyed \o plugins
             /\ plugins' = <<>>
             /\ ~flushTimer'
             /\ ~isInitialized'
       /\ ~flushTimer => last'.op # "timer"]_vars

\* C34: every milestone is passed to track() at most once, and at the
\* first measurement whose clamped percentage reaches it; maxScrollDepth
\* never decreases and is the largest clamped percentage measured so far
\* (0 before any).
C34_ScrollMilestones ==
    [][last'.op = "scroll" =>
          /\ \A i, j \in DOMAIN scroll'.emitted :
                scroll'.emitted[i] = scroll'.emitted[j] => i = j
          /\ \A i \in DOMAIN SCROLL_MILESTONES :
                LET m == SCROLL_MILESTONES[i]
                    before == \E v \in scroll.measured : v >= m
                    now == \E v \in scroll'.measured \ scroll.measured :
                               v >= m
                IN (\E k \in DOMAIN scroll'.calls :
                        scroll'.calls[k].depth = m) <=> (now /\ ~before)
          /\ scroll'.maxScrollDepth >= scroll.maxScrollDepth
          /\ \A v \in scroll'.measured : v <= scroll'.maxScrollDepth
          /\ scroll'.maxScrollDepth \in scroll'.measured \cup {0}
          /\ \A k \in DOMAIN scroll'.calls :
                scroll'.calls[k].maxDepth = scroll'.maxScrollDepth]_vars

\* C34 witness: a measurement of 62% after one of 87% passes no milestone
\* to track(), and 25, 50 and 75 were passed once
C34_Witness ==
    /\ last.op = "scroll"
    /\ scroll.measured = {62, 87}
    /\ scroll.maxScrollDepth = 87
    /\ scroll.calls = <<>>
    /\ scroll.emitted = <<25, 50, 75>>
    /\ Len(queue) = 3

\* the instances destroy() ran on in this step
Torn == { p \in PageViewPlugins : alive(page, p) /\ ~alive(page', p) }

\* C35: after init() and then destroy() of a PageViewPlugin the History
\* methods are the functions that were installed before its init(), its
\* popstate listener is removed, and no later pushState, replaceState or
\* popstate makes that instance track a page_view.
C35_InstallUninstall ==
    [][/\ \A p \in Torn :
             /\ page'.pushState = page.plugin[p].foundPushState
             /\ page'.replaceState = page.plugin[p].foundReplaceState
             /\ \A i \in DOMAIN page'.listeners : page'.listeners[i] # p
       /\ \A p \in PageViewPlugins :
             (inited(page, p) /\ ~alive(page, p)) =>
                 /\ \A i \in DOMAIN page'.calls : page'.calls[i] # p
                 /\ \A i \in DOMAIN page'.listeners :
                       page'.listeners[i] # p]_vars

\* C35 witness: the only PageViewPlugin of the page was destroyed and the
\* page has navigated since, with the browser's own pushState
C35_Witness ==
    /\ last.op = "pushState"
    /\ inited(page, OWN_PAGE_VIEW)
    /\ ~alive(page, OWN_PAGE_VIEW)
    /\ \A p \in OtherPageViews : ~inited(page, p)
    /\ page.pushState = Native
    /\ page.calls = <<>>
    /\ ~page.threw

\* C40: with several PageViewPlugins initialised and destroyed in any
\* order, every instance that is alive tracks a page_view on pushState and
\* replaceState, the call never throws, and once every instance is
\* destroyed the History methods are the browser's own.
C40_SeveralPageViewPlugins ==
    /\ last.op \in {"pushState", "replaceState"} =>
          /\ ~page.threw
          /\ \A p \in PageViewPlugins :
                alive(page, p) =>
                    \E i \in DOMAIN page.calls : page.calls[i] = p
    /\ (\A p \in PageViewPlugins : ~alive(page, p)) =>
          /\ page.pushState = Native
          /\ page.replaceState = Native

\* C36: isFlushing is set exactly while a sendEvents call of flush() is
\* outstanding; when the call settles, by a success result, a failure
\* result or an exception, the flag is clear again, so flush() is never
\* left disabled.
C36_FlushLockReleased ==
    [][/\ isFlushing' <=> (pending' # <<>>)
       /\ last'.op \in {"success", "failure", "throw"} =>
             /\ isFlushing
             /\ ~isFlushing'
             /\ Len(pending') = Len(pending) - 1]_vars

\* C36 witness: the sendEvents call of a flush threw and the lock is free
C36_Witness ==
    /\ last.op = "throw"
    /\ ~isFlushing
    /\ pending = <<>>
    /\ ~reloaded

\* the event was built by a track() call that came before the last
\* reset(): tracked holds the calls made since
CreatedBeforeReset(e) == e.id < nextId - Len(tracked)

\* C37: a flush that was in flight during reset() or deleteData() does
\* not undo the call: when its sendEvents settles, no event created before
\* the call is in the queue or in the stored snapshot, from where a later
\* transport call would take it.
C37_ResetNotUndone ==
    [][last'.op \in {"success", "failure", "throw"} =>
          \A e \in Range(queue') \cup Range(restoreQueue(persisted')) :
              ~CreatedBeforeReset(e)']_vars

IdsOf(events) == { e.id : e \in events }

\* no event twice in the sequence
Distinct(events) ==
    \A i, j \in DOMAIN events : events[i].id = events[j].id => i = j

\* C38: within one page life the consent buffer, the queue and the batch
\* in flight hold different events, none of them twice, and an event of a
\* sendEvents or sendBeacon call that succeeded is in none of them, so no
\* second call can carry it.
C38_AtMostOnePlace ==
    ~reloaded =>
        /\ IdsOf(Range(eventBuffer)) \cap IdsOf(Range(queue)) = {}
        /\ IdsOf(Range(eventBuffer)) \cap IdsOf(InFlight) = {}
        /\ IdsOf(Range(queue)) \cap IdsOf(InFlight) = {}
        /\ Distinct(eventBuffer)
        /\ Distinct(queue)
        /\ \A i \in DOMAIN pending : Distinct(pending[i])
        /\ IdsOf(delivered) \cap
               IdsOf(Range(eventBuffer) \cup Range(queue) \cup InFlight) = {}

\* C38 witness: the unload handler has sent event 2 through the beacon
\* while the flush of event 1 is outstanding
C38_Witness ==
    /\ ~reloaded
    /\ last = [op |-> "flushSync", call |-> "sendBeacon"]
    /\ IdsOf(InFlight) = {1}
    /\ IdsOf(delivered) = {2}
    /\ queue = <<>>

\* C39: with waitForConsent, a track() call made while the user's explicit
\* choice for analytics is false drops the event: it enters neither the
\* consent buffer nor the queue, so a later grant cannot send it.
C39_DeniedEventsDropped ==
    [][(/\ last'.op = "track"
        /\ waitForConsent
        /\ hasExplicitConsent
        /\ state.analytics = "false") =>
          /\ eventBuffer' = eventBuffer
          /\ queue' = queue
          /\ pending' = pending]_vars

====
